---------------------------- MODULE Spec2Model ----------------------------
(***************************************************************************)
(* State reconciliation of the Renson pergola integration:                 *)
(*   - RensonCoordinator (coordinator.py): REST refresh, push merge,       *)
(*     start of the WebSocket listener, poll timer;                        *)
(*   - RensonClient.async_listen_websocket (api/client.py): life of the    *)
(*     listener task and of the connection handle;                         *)
(*   - RensonClient._parse_ws_message, _ws_ping_loop and                   *)
(*     async_disconnect_websocket (api/client.py): the classifier of the   *)
(*     pushed messages, the keepalive task, the closing of the stream;     *)
(*   - RensonCycleButton (button.py): direction memory and cycle press.    *)
(*                                                                         *)
(* Dictionaries are functions from their keys to their values.  Python's   *)
(* None is the reserved dictionary NoneVal.  Stack positions are kept in   *)
(* tenths of a percent (995 is 99.5) so that round() has something to do.  *)
(* Time is counted in seconds; a REST round trip is short against one      *)
(* second, so the clock advances only while no refresh is in flight.       *)
(***************************************************************************)
EXTENDS Integers, Sequences, FiniteSets, TLC

VARIABLES
    data,           \* RensonCoordinator.data
    seen,           \* coordinator.data as read by the listeners at their last notification
    pollPc,         \* position of _async_update_data: "idle", "status", "weather"
    rdata,          \* the local `data` of _async_update_data (the status response)
    updateFailed,   \* UpdateFailed raised by the refresh in flight / last finished (0 or 1)
    timer,          \* seconds until the scheduled refresh fires
    sincePoll,      \* seconds since the last REST poll started (saturates at MaxClock)
    sinceUpdate,    \* seconds since the last poll finished or push update (saturates)
    wsPc,           \* position of the listener coroutine started last: "none",
                    \* "connecting", "handshake" (connected, sending Authenticate
                    \* and Subscribe), "reading", "cleanup" (in its finally block),
                    \* "interrupted" (cancelled inside the finally block), "done"
    ws,             \* client._ws: "none", "open", "closed"
    lastDirection,  \* RensonCycleButton._last_direction
    pressPc,        \* position of RensonCycleButton.async_press: "idle", "cmd",
                    \* "raised" (the last press ended with its command's exception)
    issued,         \* the commands issued by the cycle press in flight (or the last one)
    refreshRequested, \* async_request_refresh() was called and has not run yet
    notified,       \* the last coordinator operation notified the listeners
    last,           \* the last coordinator operation, its inputs, what it removed
    taskRef,        \* client._ws_task is set (it refers to the listener task)
    msg,            \* the message the read loop of the listener took last
    pingPc,         \* the ping task of the listener: "none", "sleeping", "ended", "failed"
    pings,          \* the Pings sent, counted modulo PingModulus
    discPc,         \* position of async_disconnect_websocket: "idle", "awaitTask",
                    \* "taskDone" (the awaited task is done, the call not yet resumed),
                    \* "awaitClose"
    disconnects,    \* the calls of async_disconnect_websocket that have returned
    pressLog,       \* the commands the cycle presses have issued, in order
    token,          \* client._token: "none", "ok" (the device accepts it),
                    \* "revoked" (set, but the device answers 401 to it)
    session,        \* client._session is set
    setupPc,        \* position of async_setup_entry: "login", "refresh", "forward",
                    \* "done" (returned True), "loginFailed", "notReady" (raised)
    closePc,        \* position of async_close: "idle", "disconnect", "logout",
                    \* "session", "returned"
    writes,         \* the REST writes (PUT requests) sent to the device, in order
    call,           \* the last call of a client operation and how it ended
    handshake,      \* the messages the listener has sent on its connection before
                    \* its read loop, in order
    calc,           \* the last tilt conversion: function, argument, result
    rejected,       \* the last status fetch was answered 401 and the client still
                    \* holds the token it was made with
    orphans         \* the listener tasks still running that another listener was
                    \* started over: client._ws_task did not refer to them

vars == <<data, seen, pollPc, rdata, updateFailed, timer, sincePoll, sinceUpdate,
          wsPc, ws, lastDirection, pressPc, issued, refreshRequested, notified, last,
          taskRef, msg, pingPc, pings, discPc, disconnects, pressLog,
          token, session, setupPc, closePc, writes, call, handshake, calc, rejected,
          orphans>>

coordVars == <<data, seen, pollPc, rdata, updateFailed, notified, last>>
clockVars == <<timer, sincePoll, sinceUpdate>>
wsVars == <<wsPc, ws>>
buttonVars == <<pressPc, issued>>
pingVars == <<pingPc, pings>>
discVars == <<discPc, disconnects>>
streamVars == <<taskRef, orphans, msg, pingVars, discVars>>
authVars == <<token, session, rejected>>
lifeVars == <<authVars, setupPc, closePc, writes, call, handshake, calc>>

-----------------------------------------------------------------------------
(* Constants of the program and bounds of the model *)

UPDATE_INTERVAL == 30

MaxClock == 40

MaxPresses == 4

PingModulus == 3

MaxDisconnects == 2

MaxCalls == 3

MaxTiltWrites == 1
\* The listener tasks that may run beside the one the model follows.
MaxOrphans == 1
\* The client calls made around a close of the client.
MaxCallsAtClose == 1

TILT_MAX_DEGREES == 125

NoneVal == [none__ |-> TRUE]

\* No client operation has been called yet; no tilt conversion has been made.
NoCall == [op |-> "none", request |-> "none", result |-> "none", seq |-> 0]
NoCalc == [fn |-> "none", arg |-> 0, res |-> 0]

_WS_SUBSCRIPTIONS ==
    << "ROOF_STATUS_CHANGED", "SKYE2_STATUS_CHANGED", "ROOF_SELF_TEST_STATUS_CHANGED",
       "DIGITAL_INPUT_STATUS_CHANGED", "SYSTEM_STATUS_CHANGED" >>

_OPENING_DIRECTIONS == {"tilting_open", "stacking"}
_CLOSING_DIRECTIONS == {"tilting_close", "unstacking"}

-----------------------------------------------------------------------------
(* Python helpers *)

\* bool(d) of a dictionary or None
Truthy(d) == d # NoneVal /\ DOMAIN d # {}

\* `key in d`
Has(d, k) == d # NoneVal /\ k \in DOMAIN d

\* {**a, **b}
DictMerge(a, b) ==
    [k \in DOMAIN a \cup DOMAIN b |-> IF k \in DOMAIN b THEN b[k] ELSE a[k]]

\* d with d[k] = v assigned
DictSet(d, k, v) ==
    [x \in DOMAIN d \cup {k} |-> IF x = k THEN v ELSE d[x]]

\* d["current_roof_positions"][f] is there
PosKnown(d, f) ==
    /\ Has(d, "current_roof_positions")
    /\ f \in DOMAIN d["current_roof_positions"]

\* roof_device.state of d is "moving".
RoofMoving(d) ==
    /\ Has(d, "roof_device")
    /\ "state" \in DOMAIN d["roof_device"]
    /\ d["roof_device"]["state"] = "moving"

\* The stack position of d in tenths, 0 when it is not known.
StackOf(d) ==
    IF PosKnown(d, "stack") THEN d["current_roof_positions"]["stack"] ELSE 0

\* History: the top-level keys and the position fields that old had and
\* new has not.
Lost(old, new) ==
    IF old = NoneVal THEN {}
    ELSE {k \in DOMAIN old : ~Has(new, k)}
         \cup {f \in {"stack", "tilt"} : PosKnown(old, f) /\ ~PosKnown(new, f)}

\* round() of a value given in tenths: round half to even
PyRound(tenths) ==
    LET q == tenths \div 10
        r == tenths % 10
    IN  IF r < 5 THEN q
        ELSE IF r > 5 THEN q + 1
        ELSE IF q % 2 = 0 THEN q ELSE q + 1

-----------------------------------------------------------------------------
(* Inputs: what the device can answer and push *)

RoofOpening == [state |-> "moving", direction |-> "stacking"]
RoofClosing == [state |-> "moving", direction |-> "unstacking"]
RoofIdle == [state |-> "ready", direction |-> "idle"]
RoofTiltingOpen == [state |-> "moving", direction |-> "tilting_open"]
RoofTiltingClose == [state |-> "moving", direction |-> "tilting_close"]

PosClosed == [stack |-> 0, tilt |-> 0]
PosOpen == [stack |-> 1000, tilt |-> 90]
PosStackOnly == [stack |-> 995]
PosTiltOnly == [tilt |-> 45]

\* Responses of GET <status-path> (async_get_status): complete ones, one with
\* a partial positions record, one of a firmware that reports roof_device and
\* no positions.
Snapshots ==
    { [state |-> "ready", current_roof_positions |-> PosClosed],
      [state |-> "moving", current_roof_positions |-> PosOpen],
      [state |-> "ready", current_roof_positions |-> PosTiltOnly],
      [state |-> "ready", roof_device |-> RoofIdle] }

\* The `data` records of the topic messages the classifier passes on.
Deltas ==
    { [roof_device |-> RoofOpening],
      [roof_device |-> RoofClosing],
      [roof_device |-> RoofIdle],
      [current_roof_positions |-> PosStackOnly] }

\* Outcomes of async_get_weather_state: it raises, returns None, or a value.
WeatherValues == {"rain", "sunny"}
WeatherOutcomes == {"raise", "None"} \cup WeatherValues

\* The roof_device records of the direction memory's specification: every
\* direction of the two sets while moving; moving with the direction idle,
\* unknown or missing; an opening direction while not moving; idle; empty.
MemoryRoofs ==
    { RoofOpening, RoofTiltingOpen, RoofClosing, RoofTiltingClose,
      [state |-> "moving", direction |-> "idle"],
      [state |-> "moving", direction |-> "calibrating"],
      [state |-> "moving"],
      [state |-> "ready", direction |-> "stacking"],
      RoofIdle,
      [k \in {} |-> 0] }

\* Its deltas: one per record, one without roof_device, an empty one.
MemoryDeltas ==
    { [roof_device |-> roof] : roof \in MemoryRoofs }
    \cup { [current_roof_positions |-> PosStackOnly], [k \in {} |-> 0] }

\* Its status responses: one without roof_device, one with.
MemorySnapshots ==
    { [state |-> "ready", current_roof_positions |-> PosClosed],
      [state |-> "ready", roof_device |-> RoofIdle] }

\* The inputs of the timing specifications: one response, one event.
TimingSnapshots == { [state |-> "ready", current_roof_positions |-> PosClosed] }
TimingDeltas == { [roof_device |-> RoofOpening] }
TimingWeather == {"None"}

-----------------------------------------------------------------------------
(* RensonCycleButton._handle_coordinator_update: the direction memory after
   the listeners are told of coordinator data d *)

\* Faulty variant of HandleCoordinatorUpdate: the direction is followed
\* whatever roof_device.state is.
HandleCoordinatorUpdateAnyState(mem, d) ==
    IF Truthy(d) /\ "roof_device" \in DOMAIN d
    THEN LET roof == d["roof_device"]
             direction == IF "direction" \in DOMAIN roof THEN roof["direction"] ELSE "idle"
         IN  IF direction \in _OPENING_DIRECTIONS THEN "opening"
             ELSE IF direction \in _CLOSING_DIRECTIONS THEN "closing"
             ELSE mem
    ELSE mem

\* The memory after _handle_coordinator_update has read d.
HandleCoordinatorUpdate(mem, d) ==
    IF Truthy(d) /\ "roof_device" \in DOMAIN d
    THEN LET roof == d["roof_device"]
             direction == IF "direction" \in DOMAIN roof THEN roof["direction"] ELSE "idle"
         IN  IF DOMAIN roof # {} /\ "state" \in DOMAIN roof /\ roof["state"] = "moving"
             THEN IF direction \in _OPENING_DIRECTIONS THEN "opening"
                  ELSE IF direction \in _CLOSING_DIRECTIONS THEN "closing"
                  ELSE mem
             ELSE mem
    ELSE mem

\* DataUpdateCoordinator.async_update_listeners: every entity reads
\* coordinator.data, the cycle button tracks the direction.
UpdateListeners(d) ==
    /\ notified' = TRUE
    /\ seen' = d
    /\ lastDirection' = HandleCoordinatorUpdate(lastDirection, d)

\* (Re)arm the refresh timer one interval from now.
ScheduleRefresh == timer' = UPDATE_INTERVAL

\* Faulty variant of SetUpdatedData: the poll timer is left running.
SetUpdatedDataNoReset(d) ==
    /\ data' = d
    /\ UpdateListeners(d)
    /\ sinceUpdate' = 0
    /\ UNCHANGED <<timer, sincePoll>>

\* Faulty variant of SetUpdatedData: the listeners are told before the data is stored.
SetUpdatedDataNotifyFirst(d) ==
    /\ UpdateListeners(data)
    /\ data' = d
    /\ ScheduleRefresh
    /\ sinceUpdate' = 0
    /\ UNCHANGED sincePoll

\* DataUpdateCoordinator.async_set_updated_data, as _handle_ws_message uses it:
\* store, notify the listeners, reset the REST poll timer.
SetUpdatedData(d) ==
    /\ data' = d
    /\ UpdateListeners(d)
    /\ ScheduleRefresh
    /\ sinceUpdate' = 0
    /\ UNCHANGED sincePoll

-----------------------------------------------------------------------------
(* RensonCoordinator *)

\* ws_connected
WsConnected == ws = "open"

\* A listener coroutine has been started and has not finished.
ListenerRunning ==
    wsPc \in {"connecting", "handshake", "reading", "cleanup", "interrupted"}

\* client._ws_task is set and the task is not done.
WsTaskRunning == taskRef /\ ListenerRunning

\* Faulty variant of StartWebsocket: a finished task counts as running.
StartWebsocketOnce ==
    IF WsConnected \/ wsPc # "none"
    THEN UNCHANGED <<wsVars, taskRef, pingPc, orphans>>
    ELSE /\ wsPc' = "connecting" /\ taskRef' = TRUE /\ pingPc' = "none"
         /\ UNCHANGED <<ws, orphans>>

\* _start_websocket, called when not ws_connected: the new listener task
\* becomes client._ws_task; it has no ping task yet.  A listener that is
\* still running without client._ws_task referring to it goes on beside the
\* new one.
StartWebsocket ==
    IF WsConnected \/ WsTaskRunning
    THEN UNCHANGED <<wsVars, taskRef, pingPc, orphans>>
    ELSE /\ wsPc' = "connecting" /\ taskRef' = TRUE /\ pingPc' = "none"
         /\ orphans' = (IF ListenerRunning THEN orphans + 1 ELSE orphans)
         /\ UNCHANGED ws

\* The start of _async_update_data: open the stream if needed, then issue
\* the status request.  The pending timer is cancelled by the refresh.
BeginRefresh ==
    /\ pollPc = "idle"
    /\ (~WsConnected /\ ~taskRef /\ ListenerRunning) => orphans < MaxOrphans
    /\ pollPc' = "status"
    /\ rdata' = NoneVal
    /\ updateFailed' = 0
    /\ timer' = -1
    /\ sincePoll' = 0
    /\ StartWebsocket
    /\ UNCHANGED <<data, seen, notified, last, sinceUpdate, lastDirection, buttonVars>>
    /\ UNCHANGED <<msg, pings, discVars, pressLog, lifeVars>>

\* The scheduled refresh: the timer has run out.
TimerRefresh ==
    /\ timer = 0
    /\ BeginRefresh
    /\ UNCHANGED refreshRequested

\* A refresh asked for by async_request_refresh.
RequestedRefresh ==
    /\ refreshRequested
    /\ BeginRefresh
    /\ refreshRequested' = FALSE

\* async_get_status returned snap.
FetchStatusOk(snap) ==
    /\ pollPc = "status"
    /\ session
    /\ token = "ok"
    /\ pollPc' = "weather"
    /\ rdata' = snap
    /\ UNCHANGED <<data, seen, updateFailed, notified, last, clockVars, wsVars,
                   lastDirection, buttonVars, refreshRequested, streamVars, pressLog, lifeVars>>

\* Faulty variant of FetchStatusFail: the failure clears the data.
FetchStatusFailClears ==
    /\ pollPc = "status"
    /\ pollPc' = "idle"
    /\ rdata' = NoneVal
    /\ updateFailed' = updateFailed + 1
    /\ last' = [op |-> "refresh_failed", arg |-> NoneVal, weather |-> "na", lost |-> {}]
    /\ data' = NoneVal
    /\ UpdateListeners(NoneVal)
    /\ ScheduleRefresh
    /\ sinceUpdate' = 0
    /\ UNCHANGED <<sincePoll, wsVars, buttonVars, refreshRequested, streamVars, pressLog, lifeVars>>

\* async_get_status raised: UpdateFailed is raised, the coordinator keeps
\* its data and schedules the next refresh.
FetchStatusFail ==
    /\ pollPc = "status"
    /\ pollPc' = "idle"
    /\ rdata' = NoneVal
    /\ updateFailed' = updateFailed + 1
    /\ last' = [op |-> "refresh_failed", arg |-> NoneVal, weather |-> "na", lost |-> {}]
    /\ notified' = FALSE
    /\ ScheduleRefresh
    /\ sinceUpdate' = 0
    /\ UNCHANGED <<data, seen, sincePoll, wsVars, lastDirection, buttonVars,
                   refreshRequested, streamVars, pressLog, lifeVars>>

\* Faulty variant of RefreshResult: roof_device is not carried over.
RefreshResultNoCarry(cur, snap, weather) ==
    IF weather \in WeatherValues THEN DictSet(snap, "weather_state", weather) ELSE snap

\* Faulty variant of RefreshResult: the response is merged over the whole of cur.
RefreshResultMergeAll(cur, snap, weather) ==
    LET withWeather == IF weather \in WeatherValues
                       THEN DictSet(snap, "weather_state", weather)
                       ELSE snap
    IN  IF cur = NoneVal THEN withWeather ELSE DictMerge(cur, withWeather)

\* Faulty variant of RefreshResult: what the data holds wins over the response.
RefreshResultPushWins(cur, snap, weather) ==
    LET withWeather == IF weather \in WeatherValues
                       THEN DictSet(snap, "weather_state", weather)
                       ELSE snap
    IN  IF cur = NoneVal THEN withWeather ELSE DictMerge(withWeather, cur)

\* What _async_update_data returns: the status response, weather_state set
\* when the weather fetch gave a value, roof_device carried over from cur.
RefreshResult(cur, snap, weather) ==
    LET withWeather == IF weather \in WeatherValues
                       THEN DictSet(snap, "weather_state", weather)
                       ELSE snap
    IN  IF Truthy(cur) /\ "roof_device" \in DOMAIN cur
           /\ "roof_device" \notin DOMAIN withWeather
        THEN DictSet(withWeather, "roof_device", cur["roof_device"])
        ELSE withWeather

\* Faulty variant of FinishRefresh: an exception of the weather fetch fails the refresh.
FinishRefreshStrict(weather) ==
    /\ pollPc = "weather"
    /\ weather # "raise" => (session /\ token = "ok")
    /\ pollPc' = "idle"
    /\ IF weather = "raise"
       THEN /\ updateFailed' = updateFailed + 1
            /\ last' = [op |-> "refresh_failed", arg |-> NoneVal, weather |-> "na",
                        lost |-> {}]
            /\ notified' = FALSE
            /\ UNCHANGED <<data, seen, lastDirection>>
       ELSE LET result == RefreshResult(data, rdata, weather)
            IN  /\ data' = result
                /\ UpdateListeners(result)
                /\ last' = [op |-> "refresh_ok", arg |-> rdata, weather |-> weather,
                            lost |-> Lost(data, result)]
                /\ UNCHANGED updateFailed
    /\ rdata' = NoneVal
    /\ ScheduleRefresh
    /\ sinceUpdate' = 0
    /\ UNCHANGED <<sincePoll, wsVars, buttonVars, refreshRequested, streamVars, pressLog, lifeVars>>

\* async_get_weather_state finished with `weather`; _async_update_data
\* returns, the coordinator stores the result and notifies.  Without a
\* session or a token the device accepts, the fetch can only raise.
FinishRefresh(weather) ==
    /\ pollPc = "weather"
    /\ weather # "raise" => (session /\ token = "ok")
    /\ pollPc' = "idle"
    /\ LET result == RefreshResult(data, rdata, weather)
       IN  /\ data' = result
           /\ UpdateListeners(result)
           /\ last' = [op |-> "refresh_ok", arg |-> rdata, weather |-> weather,
                       lost |-> Lost(data, result)]
    /\ rdata' = NoneVal
    /\ ScheduleRefresh
    /\ sinceUpdate' = 0
    /\ UNCHANGED <<updateFailed, sincePoll, wsVars, buttonVars, refreshRequested,
                   streamVars, pressLog, lifeVars>>

\* Faulty variant of PushMerged: the delta replaces the data.
PushMergedReplace(cur, delta) == delta

\* Faulty variant of PushMerged: the positions record is merged field by field.
PushMergedDeep(cur, delta) ==
    IF cur = NoneVal THEN delta
    ELSE LET m == DictMerge(cur, delta)
         IN  IF "current_roof_positions" \in DOMAIN cur
                /\ "current_roof_positions" \in DOMAIN delta
             THEN DictSet(m, "current_roof_positions",
                          DictMerge(cur["current_roof_positions"],
                                    delta["current_roof_positions"]))
             ELSE m

\* The merge of _handle_ws_message
PushMerged(cur, delta) ==
    IF cur = NoneVal THEN delta ELSE DictMerge(cur, delta)

\* The body of _handle_ws_message(delta): merge, store, notify.
WsCallback(delta) ==
    /\ SetUpdatedData(PushMerged(data, delta))
    /\ last' = [op |-> "push", arg |-> delta, weather |-> "na",
                lost |-> Lost(data, PushMerged(data, delta))]
    /\ UNCHANGED <<pollPc, rdata, updateFailed>>

\* _handle_ws_message(delta), called by the listener for a classified event
HandleWsMessage(delta) ==
    /\ wsPc = "reading"
    /\ ws = "open"
    /\ WsCallback(delta)
    /\ UNCHANGED <<wsVars, buttonVars, refreshRequested, streamVars, pressLog, lifeVars>>

-----------------------------------------------------------------------------
(* RensonClient.async_listen_websocket: the listener task *)

\* ws_connect and the handshake succeeded: the ping task is created and the
\* read loop starts.
WsConnect ==
    /\ wsPc = "connecting"
    /\ session
    /\ token # "none"
    /\ wsPc' = "reading"
    /\ ws' = "open"
    /\ pingPc' = "sleeping"
    /\ UNCHANGED <<coordVars, clockVars, lastDirection, buttonVars, refreshRequested>>
    /\ UNCHANGED <<taskRef, orphans, msg, pings, discVars, pressLog, lifeVars>>

\* ws_connect raised (no handle), or a handshake send raised (handle set):
\* the exception is logged and the finally block runs.
WsConnectFail ==
    /\ wsPc = "connecting"
    /\ session
    /\ token # "none"
    /\ wsPc' = "cleanup"
    /\ ws' \in {"none", "open", "closed"}
    /\ UNCHANGED <<coordVars, clockVars, lastDirection, buttonVars, refreshRequested>>
    /\ UNCHANGED <<streamVars, pressLog, lifeVars>>

\* The listener finds no session or no token: it raises ValueError before
\* its try block, so nothing is connected and no finally block runs; the
\* task is done.
WsNotAuthenticated ==
    /\ wsPc = "connecting"
    /\ ~session \/ token = "none"
    /\ wsPc' = "done"
    /\ UNCHANGED <<coordVars, clockVars, ws, lastDirection, buttonVars, refreshRequested>>
    /\ UNCHANGED <<streamVars, pressLog, lifeVars>>

\* The read loop ends: an ERROR message, a close message, or an exception.
WsStreamEnd ==
    /\ wsPc = "reading"
    /\ wsPc' = "cleanup"
    /\ ws' \in (IF ws = "open" THEN {"open", "closed"} ELSE {ws})
    /\ UNCHANGED <<coordVars, clockVars, lastDirection, buttonVars, refreshRequested>>
    /\ UNCHANGED <<streamVars, pressLog, lifeVars>>

\* The finally block: the ping task is cancelled, the socket closed, the
\* handle cleared; the task is done and its ping task is no more.
WsCleanup ==
    /\ wsPc = "cleanup"
    /\ wsPc' = "done"
    /\ ws' = "none"
    /\ pingPc' = "none"
    /\ discPc' = (IF discPc = "awaitTask" THEN "taskDone" ELSE discPc)
    /\ UNCHANGED <<coordVars, clockVars, lastDirection, buttonVars, refreshRequested>>
    /\ UNCHANGED <<taskRef, orphans, msg, pings, disconnects, pressLog, lifeVars>>

\* The finally block of a listener that was cancelled while it was in it.
\* Cancelled at `await ping_task`, the cancellation is swallowed and the
\* block runs to its end; cancelled at `await self._ws.close()`, the socket
\* is closed but the handle is not cleared.  Either way the task is done.
WsCleanupInterrupted ==
    /\ wsPc = "interrupted"
    /\ wsPc' = "done"
    /\ ws' \in (IF ws # "open" THEN {"none"}
                ELSE IF pingPc = "sleeping" THEN {"none", "closed"}
                ELSE {"closed"})
    /\ pingPc' = "none"
    /\ discPc' = (IF discPc = "awaitTask" THEN "taskDone" ELSE discPc)
    /\ UNCHANGED <<coordVars, clockVars, lastDirection, buttonVars, refreshRequested>>
    /\ UNCHANGED <<taskRef, orphans, msg, pings, disconnects, pressLog, lifeVars>>

-----------------------------------------------------------------------------
(* RensonClient.async_listen_websocket, the handshake message by message *)

\* The two messages of the handshake.
Authenticate(bearer) == [type |-> "Authenticate", data |-> [bearer |-> bearer]]
Subscribe(topics) == [type |-> "Subscribe", data |-> [subscriptions |-> topics]]

\* ws_connect returned: the handle is set; nothing has been sent yet.
WsOpened ==
    /\ wsPc = "connecting"
    /\ session
    /\ token # "none"
    /\ wsPc' = "handshake"
    /\ ws' = "open"
    /\ handshake' = <<>>
    /\ UNCHANGED <<coordVars, clockVars, lastDirection, buttonVars, refreshRequested,
                   streamVars, pressLog>>
    /\ UNCHANGED <<authVars, setupPc, closePc, writes, call, calc>>

\* Faulty variant of WsSendAuthenticate: the ping task is started with it.
WsSendAuthenticateStartsPing ==
    /\ wsPc = "handshake"
    /\ handshake = <<>>
    /\ handshake' = <<Authenticate(token)>>
    /\ pingPc' = "sleeping"
    /\ UNCHANGED <<coordVars, clockVars, wsVars, lastDirection, buttonVars,
                   refreshRequested, taskRef, orphans, msg, pings, discVars, pressLog>>
    /\ UNCHANGED <<authVars, setupPc, closePc, writes, call, calc>>

\* The Authenticate message, with the token as bearer, is sent.
WsSendAuthenticate ==
    /\ wsPc = "handshake"
    /\ handshake = <<>>
    /\ handshake' = <<Authenticate(token)>>
    /\ UNCHANGED <<coordVars, clockVars, wsVars, lastDirection, buttonVars,
                   refreshRequested, streamVars, pressLog>>
    /\ UNCHANGED <<authVars, setupPc, closePc, writes, call, calc>>

\* The Subscribe message is sent; the ping task is created and the read
\* loop starts.
WsSendSubscribe ==
    /\ wsPc = "handshake"
    /\ Len(handshake) = 1
    /\ handshake' = Append(handshake, Subscribe(_WS_SUBSCRIPTIONS))
    /\ wsPc' = "reading"
    /\ pingPc' = "sleeping"
    /\ UNCHANGED <<coordVars, clockVars, ws, lastDirection, buttonVars,
                   refreshRequested, taskRef, orphans, msg, pings, discVars, pressLog>>
    /\ UNCHANGED <<authVars, setupPc, closePc, writes, call, calc>>

\* Faulty variant of WsHandshakeFail: the failure is taken for a failed
\* update and the data is dropped.
WsHandshakeFailDropsData ==
    /\ wsPc = "handshake"
    /\ wsPc' = "cleanup"
    /\ ws' \in {"open", "closed"}
    /\ data' = NoneVal
    /\ updateFailed' = 1
    /\ UNCHANGED <<seen, pollPc, rdata, notified, last>>
    /\ UNCHANGED <<clockVars, lastDirection, buttonVars, refreshRequested,
                   streamVars, pressLog, lifeVars>>

\* A send of the handshake raised: the exception is logged and the finally
\* block runs.
WsHandshakeFail ==
    /\ wsPc = "handshake"
    /\ wsPc' = "cleanup"
    /\ ws' \in {"open", "closed"}
    /\ UNCHANGED <<coordVars, clockVars, lastDirection, buttonVars, refreshRequested,
                   streamVars, pressLog, lifeVars>>

-----------------------------------------------------------------------------
(* RensonClient._ws_ping_loop: the ping task of the listener *)

\* Faulty variant of PingSend: the loop ends after a Ping.
PingSendOnce ==
    /\ pingPc = "sleeping"
    /\ ws = "open"
    /\ pings' = (pings + 1) % PingModulus
    /\ pingPc' = "ended"
    /\ UNCHANGED <<coordVars, clockVars, wsVars, lastDirection, buttonVars,
                   refreshRequested, taskRef, orphans, msg, discVars, pressLog, lifeVars>>

\* The sleep is over, the connection is open, the Ping is sent; the loop
\* goes back to sleep.
PingSend ==
    /\ pingPc = "sleeping"
    /\ ws = "open"
    /\ pings' = (pings + 1) % PingModulus
    /\ UNCHANGED <<coordVars, clockVars, wsVars, lastDirection, buttonVars,
                   refreshRequested, taskRef, orphans, msg, pingPc, discVars, pressLog, lifeVars>>

\* Faulty variant of PingSendFail: the failure closes the connection.
PingSendFailCloses ==
    /\ pingPc = "sleeping"
    /\ ws = "open"
    /\ pingPc' = "failed"
    /\ ws' = "closed"
    /\ UNCHANGED <<coordVars, clockVars, wsPc, lastDirection, buttonVars,
                   refreshRequested, taskRef, orphans, msg, pings, discVars, pressLog, lifeVars>>

\* The sleep is over, the connection is open, send_json raises: the
\* exception is caught and logged, and the ping task returns.
PingSendFail ==
    /\ pingPc = "sleeping"
    /\ ws = "open"
    /\ pingPc' = "failed"
    /\ UNCHANGED <<coordVars, clockVars, wsVars, lastDirection, buttonVars,
                   refreshRequested, taskRef, orphans, msg, pings, discVars, pressLog, lifeVars>>

\* The sleep is over and the handle is cleared or the socket closed: the
\* loop condition is false and the ping task returns.
PingLoopExit ==
    /\ pingPc = "sleeping"
    /\ ws # "open"
    /\ pingPc' = "ended"
    /\ UNCHANGED <<coordVars, clockVars, wsVars, lastDirection, buttonVars,
                   refreshRequested, taskRef, orphans, msg, pings, discVars, pressLog, lifeVars>>

-----------------------------------------------------------------------------
(* RensonClient.async_disconnect_websocket *)

\* The call up to its first await.  A running task is cancelled and awaited:
\* the CancelledError takes a connecting or reading listener to its finally
\* block, and reaches a listener that is already there inside the block.
\* Without a running task, an open socket is closed; without one too, the
\* call returns.
DisconnectBegin ==
    /\ discPc = "idle"
    /\ disconnects < MaxDisconnects
    /\ IF WsTaskRunning
       THEN /\ wsPc' = (IF wsPc \in {"connecting", "handshake", "reading"} THEN "cleanup"
                        ELSE "interrupted")
            /\ discPc' = "awaitTask"
            /\ UNCHANGED <<ws, disconnects>>
       ELSE IF ws = "open"
       THEN /\ ws' = "closed"
            /\ discPc' = "awaitClose"
            /\ UNCHANGED <<wsPc, disconnects>>
       ELSE /\ disconnects' = disconnects + 1
            /\ UNCHANGED <<wsVars, discPc>>
    /\ UNCHANGED <<coordVars, clockVars, lastDirection, buttonVars, refreshRequested,
                   taskRef, orphans, msg, pingVars, pressLog>>
    /\ UNCHANGED <<authVars, setupPc, writes, call, handshake, calc>>

\* A call of async_disconnect_websocket by the coordinator's shutdown.
DisconnectCall == DisconnectBegin /\ UNCHANGED closePc

\* The awaited task is done and the call goes on: _ws_task = None, then an
\* open socket is closed, or the call returns.
DisconnectResume ==
    /\ discPc = "taskDone"
    /\ taskRef' = FALSE
    /\ UNCHANGED orphans
    /\ IF ws = "open"
       THEN /\ ws' = "closed"
            /\ discPc' = "awaitClose"
            /\ UNCHANGED disconnects
       ELSE /\ discPc' = "idle"
            /\ disconnects' = disconnects + 1
            /\ UNCHANGED ws
    /\ UNCHANGED <<coordVars, clockVars, wsPc, lastDirection, buttonVars,
                   refreshRequested, msg, pingVars, pressLog, lifeVars>>

\* close() of the socket is over: the handle is cleared and the call returns.
DisconnectClose ==
    /\ discPc = "awaitClose"
    /\ ws' = "none"
    /\ discPc' = "idle"
    /\ disconnects' = disconnects + 1
    /\ UNCHANGED <<coordVars, clockVars, wsPc, lastDirection, buttonVars,
                   refreshRequested, taskRef, orphans, msg, pingVars, pressLog, lifeVars>>

\* A listener that another one was started over comes to the end of its
\* finally block: it closes whatever socket client._ws holds, also the one of
\* the newer listener, and clears the handle.  What it does before its end
\* is not followed.
OrphanEnd ==
    /\ orphans > 0
    /\ orphans' = orphans - 1
    /\ ws' = "none"
    /\ UNCHANGED <<coordVars, clockVars, wsPc, lastDirection, buttonVars,
                   refreshRequested, taskRef, msg, pingVars, discVars, pressLog, lifeVars>>

-----------------------------------------------------------------------------
(* RensonClient._parse_ws_message and the read loop that calls it *)

\* JSON values: a string, a number, null, an array, an object.
JStr(str) == [kind |-> "str", str |-> str]
JNum == [kind |-> "num"]
JNull == [kind |-> "null"]
JList == [kind |-> "list"]
JDict(dict) == [kind |-> "dict", dict |-> dict]

\* Frames of the socket: text that json.loads rejects, text that decodes to
\* a JSON value, binary.
TextGarbage == [type |-> "TEXT", decodes |-> FALSE]
TextJson(json) == [type |-> "TEXT", decodes |-> TRUE, json |-> json]
Binary == [type |-> "BINARY"]

\* {"type": type, "data": data}, {"type": type} and {"data": data} as text
Message(type, payload) == TextJson(JDict([type |-> type, data |-> payload]))
MessageNoData(type) == TextJson(JDict([type |-> type]))
MessageNoType(payload) == TextJson(JDict([data |-> payload]))

_WS_PROTOCOL_TYPES == {"Authenticated", "SubscriptionsUpdated", "Ping", "Pong"}

_WS_EVENT_TYPES ==
    { "ROOF_STATUS_CHANGED", "SKYE2_STATUS_CHANGED", "ROOF_SELF_TEST_STATUS_CHANGED",
      "DIGITAL_INPUT_STATUS_CHANGED", "SYSTEM_STATUS_CHANGED" }

\* The classifier raised (a membership test on an unhashable type).
RaiseVal == [raise__ |-> TRUE]

\* Faulty variant of ParseWsMessage: the data of any typed or untyped message passes.
ParseWsMessageAnyType(raw) ==
    IF ~raw.decodes THEN NoneVal
    ELSE IF raw.json.kind # "dict" THEN NoneVal
    ELSE LET m == raw.json.dict
         IN  IF "data" \in DOMAIN m /\ m["data"].kind = "dict"
             THEN m["data"].dict
             ELSE NoneVal

\* Faulty variant of ParseWsMessage: SYSTEM_STATUS_CHANGED is not a topic.
ParseWsMessageFourTopics(raw) ==
    IF ~raw.decodes THEN NoneVal
    ELSE IF raw.json.kind # "dict" THEN NoneVal
    ELSE LET m == raw.json.dict
             msg_type == IF "type" \in DOMAIN m THEN m["type"] ELSE JStr("")
         IN  IF msg_type.kind \in {"list", "dict"} THEN RaiseVal
             ELSE IF msg_type.kind = "str"
                     /\ msg_type.str \in _WS_EVENT_TYPES \ {"SYSTEM_STATUS_CHANGED"}
                     /\ "data" \in DOMAIN m /\ m["data"].kind = "dict"
             THEN m["data"].dict
             ELSE NoneVal

\* Faulty variant of ParseWsMessage: text that does not decode, or decodes to
\* something else than an object, is an error.
ParseWsMessageStrict(raw) ==
    IF ~raw.decodes THEN RaiseVal
    ELSE IF raw.json.kind # "dict" THEN RaiseVal
    ELSE LET m == raw.json.dict
             msg_type == IF "type" \in DOMAIN m THEN m["type"] ELSE JStr("")
         IN  IF msg_type.kind \in {"list", "dict"} THEN RaiseVal
             ELSE IF msg_type.kind = "str" /\ msg_type.str \in _WS_EVENT_TYPES
                     /\ "data" \in DOMAIN m /\ m["data"].kind = "dict"
             THEN m["data"].dict
             ELSE NoneVal

\* _parse_ws_message(raw) of a text frame: the event data, None, or an
\* exception.  `in` on the two sets needs a hashable type.
ParseWsMessage(raw) ==
    IF ~raw.decodes THEN NoneVal
    ELSE IF raw.json.kind # "dict" THEN NoneVal
    ELSE LET m == raw.json.dict
             msg_type == IF "type" \in DOMAIN m THEN m["type"] ELSE JStr("")
         IN  IF msg_type.kind \in {"list", "dict"} THEN RaiseVal
             ELSE IF msg_type.kind = "str" /\ msg_type.str \in _WS_PROTOCOL_TYPES
             THEN NoneVal
             ELSE IF msg_type.kind = "str" /\ msg_type.str \in _WS_EVENT_TYPES
             THEN IF "data" \in DOMAIN m /\ m["data"].kind = "dict"
                  THEN m["data"].dict
                  ELSE NoneVal
             ELSE NoneVal

\* The frames the device and the network can deliver.
MalformedFrames ==
    { TextGarbage, TextJson(JList), TextJson(JStr("Ping")), TextJson(JNum),
      MessageNoData(JStr("ROOF_STATUS_CHANGED")),
      Message(JStr("SKYE2_STATUS_CHANGED"), JList),
      Message(JStr("SKYE2_STATUS_CHANGED"), JStr("moving")),
      Message(JStr("SYSTEM_STATUS_CHANGED"), JNull) }

UnknownTypeFrames ==
    { MessageNoType(JDict([roof_device |-> RoofOpening])),
      Message(JStr("FIRMWARE_CHANGED"), JDict([roof_device |-> RoofOpening])),
      Message(JStr("roof_status_changed"), JDict([roof_device |-> RoofOpening])),
      Message(JStr(""), JDict([roof_device |-> RoofOpening])),
      Message(JNum, JDict([roof_device |-> RoofOpening])),
      Message(JNull, JDict([roof_device |-> RoofOpening])),
      Message(JList, JDict([roof_device |-> RoofOpening])) }

ProtocolFrames ==
    { Message(JStr("Authenticated"), JDict([k \in {} |-> 0])),
      Message(JStr("SubscriptionsUpdated"), JDict([subscriptions |-> "all"])),
      MessageNoData(JStr("Ping")),
      Message(JStr("Pong"), JDict([roof_device |-> RoofOpening])) }

EventFrames ==
    { Message(JStr("ROOF_STATUS_CHANGED"), JDict([current_roof_positions |-> PosStackOnly])),
      Message(JStr("SKYE2_STATUS_CHANGED"), JDict([roof_device |-> RoofClosing])),
      Message(JStr("ROOF_SELF_TEST_STATUS_CHANGED"), JDict([roof_device |-> RoofIdle])),
      Message(JStr("DIGITAL_INPUT_STATUS_CHANGED"), JDict([k \in {} |-> 0])),
      Message(JStr("SYSTEM_STATUS_CHANGED"), JDict([state |-> "ready"])) }

Frames == MalformedFrames \cup UnknownTypeFrames \cup ProtocolFrames \cup EventFrames
              \cup {Binary}

\* One turn of the read loop on a text or binary frame: a text frame is
\* classified and its event, if it is one, handed to the callback; an
\* exception of the classifier ends the loop.
ListenMessage(raw) ==
    /\ wsPc = "reading"
    /\ ws = "open"
    /\ msg' = raw
    /\ LET parsed == IF raw.type = "TEXT" THEN ParseWsMessage(raw) ELSE NoneVal
       IN  IF parsed = RaiseVal
           THEN /\ wsPc' = "cleanup"
                /\ UNCHANGED <<ws, coordVars, clockVars, lastDirection>>
           ELSE IF parsed = NoneVal
           THEN UNCHANGED <<wsVars, coordVars, clockVars, lastDirection>>
           ELSE WsCallback(parsed) /\ UNCHANGED wsVars
    /\ UNCHANGED <<buttonVars, refreshRequested, taskRef, orphans, pingVars, discVars, pressLog, lifeVars>>

-----------------------------------------------------------------------------
(* RensonCycleButton.async_press *)

EmptyDict == [k \in {} |-> 0]

\* Faulty variant of CycleCommand: the memory is looked at before the motion.
CycleCommandMemoryFirst(d, mem) ==
    LET roof == IF Truthy(d) /\ "roof_device" \in DOMAIN d
                THEN d["roof_device"] ELSE EmptyDict
        positions == IF Truthy(d) /\ "current_roof_positions" \in DOMAIN d
                     THEN d["current_roof_positions"] ELSE EmptyDict
        stack == IF "stack" \in DOMAIN positions THEN positions["stack"] ELSE 0
        is_moving == "state" \in DOMAIN roof /\ roof["state"] = "moving"
    IN  IF mem = "opening" \/ PyRound(stack) >= 100 THEN "close"
        ELSE IF is_moving THEN "stop"
        ELSE "open"

\* Faulty variant of CycleCommand: the stack is truncated, not rounded.
CycleCommandNoRound(d, mem) ==
    LET roof == IF Truthy(d) /\ "roof_device" \in DOMAIN d
                THEN d["roof_device"] ELSE EmptyDict
        positions == IF Truthy(d) /\ "current_roof_positions" \in DOMAIN d
                     THEN d["current_roof_positions"] ELSE EmptyDict
        stack == IF "stack" \in DOMAIN positions THEN positions["stack"] ELSE 0
        is_moving == "state" \in DOMAIN roof /\ roof["state"] = "moving"
    IN  IF is_moving THEN "stop"
        ELSE IF mem = "opening" \/ stack \div 10 >= 100 THEN "close"
        ELSE "open"

\* The command a press issues, from coordinator data d and the memory.
CycleCommand(d, mem) ==
    LET roof == IF Truthy(d) /\ "roof_device" \in DOMAIN d
                THEN d["roof_device"] ELSE EmptyDict
        positions == IF Truthy(d) /\ "current_roof_positions" \in DOMAIN d
                     THEN d["current_roof_positions"] ELSE EmptyDict
        stack == IF "stack" \in DOMAIN positions THEN positions["stack"] ELSE 0
        is_moving == "state" \in DOMAIN roof /\ roof["state"] = "moving"
    IN  IF is_moving THEN "stop"
        ELSE IF mem = "opening" \/ PyRound(stack) >= 100 THEN "close"
        ELSE "open"

\* async_press up to its command: the press reads the state, picks the
\* command and sends it.
AsyncPress ==
    /\ pressPc # "cmd"
    /\ pressPc' = "cmd"
    /\ issued' = <<CycleCommand(data, lastDirection)>>
    /\ UNCHANGED <<coordVars, clockVars, wsVars, lastDirection, refreshRequested>>
    /\ UNCHANGED streamVars

\* A press of the cycle button.
CyclePress == AsyncPress /\ UNCHANGED <<pressLog, lifeVars>>

\* Faulty variant of MemoryAfter: the press leaves the memory alone.
MemoryAfterKeeps(cmd, mem) == mem

\* Faulty variant of MemoryAfter: a stop turns the memory round as well.
MemoryAfterStopTurns(cmd, mem) ==
    IF cmd = "close" THEN "closing"
    ELSE IF cmd = "open" THEN "opening"
    ELSE IF mem = "opening" THEN "closing" ELSE "opening"

\* The direction memory after the command `cmd` succeeded.
MemoryAfter(cmd, mem) ==
    IF cmd = "close" THEN "closing"
    ELSE IF cmd = "open" THEN "opening"
    ELSE mem

\* The command succeeded: the memory is set, a refresh is requested.
CommandDone ==
    /\ pressPc = "cmd"
    /\ pressPc' = "idle"
    /\ lastDirection' = MemoryAfter(issued[Len(issued)], lastDirection)
    /\ refreshRequested' = TRUE
    /\ UNCHANGED <<coordVars, clockVars, wsVars, issued, streamVars, pressLog, lifeVars>>

\* Faulty variant of CommandFailed: the memory was set before the command
\* was awaited, so a failed command leaves it turned.
CommandFailedMemorySet ==
    /\ pressPc = "cmd"
    /\ pressPc' = "raised"
    /\ lastDirection' = MemoryAfter(issued[Len(issued)], lastDirection)
    /\ UNCHANGED <<coordVars, clockVars, wsVars, issued, refreshRequested>>
    /\ UNCHANGED <<streamVars, pressLog, lifeVars>>

\* The command raised: the press ends with the exception, before it sets
\* the memory and before it requests the refresh.
CommandFailed ==
    /\ pressPc = "cmd"
    /\ pressPc' = "raised"
    /\ UNCHANGED <<coordVars, clockVars, wsVars, issued, lastDirection, refreshRequested>>
    /\ UNCHANGED <<streamVars, pressLog, lifeVars>>

\* A command of the cover, the lock switch or the other buttons succeeded:
\* each ends with async_request_refresh().
EntityCommand ==
    /\ ~refreshRequested
    /\ refreshRequested' = TRUE
    /\ UNCHANGED <<coordVars, clockVars, wsVars, lastDirection, buttonVars>>
    /\ UNCHANGED <<streamVars, pressLog, lifeVars>>

-----------------------------------------------------------------------------
(* RensonPergolaRoof: what the cover reports of the motion *)

\* _get_roof_device: roof_device of coordinator data d, None without it.
GetRoofDevice(d) ==
    IF d # NoneVal /\ "roof_device" \in DOMAIN d THEN d["roof_device"] ELSE NoneVal

\* is_opening and is_closing: None without roof_device, False when the
\* state is not "moving", otherwise whether the direction is of `directions`.
CoverMoves(d, directions) ==
    LET roof == GetRoofDevice(d)
        direction == IF "direction" \in DOMAIN roof THEN roof["direction"] ELSE "idle"
    IN  IF roof = NoneVal THEN "None"
        ELSE IF ~("state" \in DOMAIN roof /\ roof["state"] = "moving") THEN "False"
        ELSE IF direction \in directions THEN "True" ELSE "False"

IsOpening(d) == CoverMoves(d, {"tilting_open", "stacking"})
IsClosing(d) == CoverMoves(d, {"tilting_close", "unstacking"})

-----------------------------------------------------------------------------
(* RensonClient: the command operations (REST writes) *)

\* The operations and the arguments the model calls them with.  Stack
\* positions are percents, tilt angles are tenths of a degree.
CommandCalls ==
    { [op |-> "async_open_roof", arg |-> 0],
      [op |-> "async_close_roof", arg |-> 0],
      [op |-> "async_stop_roof", arg |-> 0],
      [op |-> "async_set_roof_position", arg |-> 40],
      [op |-> "async_set_roof_tilt", arg |-> 0],
      [op |-> "async_set_roof_tilt", arg |-> 900],
      [op |-> "async_set_roof_locked", arg |-> 0],
      [op |-> "async_set_roof_locked", arg |-> 1] }

\* The PUT request of _async_roof_move(action, value).
RoofMove(action, value) ==
    [path |-> "/api/v1/skye2/roof/move",
     body |-> [json |-> [action |-> action, value |-> value]]]

\* The one PUT request the operation op sends for the argument arg.
WriteOf(op, arg) ==
    IF op = "async_open_roof" THEN RoofMove("stack", 100)
    ELSE IF op = "async_close_roof" THEN RoofMove("stack", 0)
    ELSE IF op = "async_set_roof_position" THEN RoofMove("stack", arg)
    ELSE IF op = "async_set_roof_tilt" THEN RoofMove("tilt", arg)
    ELSE IF op = "async_stop_roof"
    THEN [path |-> "/api/v1/skye2/roof/stop", body |-> [json |-> EmptyDict]]
    ELSE [path |-> "/api/v1/skye2/roof/lock",
          body |-> [text |-> IF arg = 1 THEN "true" ELSE "false"]]

\* The record of a call of the client operation op: how its request went
\* ("none" when none was sent) and how the call ended.
Called(op, request, result) ==
    [op |-> op, request |-> request, result |-> result, seq |-> call.seq + 1]

\* What the device may answer to a write made with the client's token:
\* "ok", or "error" (raise_for_status or the transport raises).
WriteOutcomes == IF token = "ok" THEN {"ok", "error"} ELSE {"error"}

\* Faulty variant of ClientCommand: a failed write is sent once more.
ClientCommandRetries(op, arg, outcome) ==
    /\ call.seq < MaxCalls
    /\ IF ~session \/ token = "none"
       THEN /\ call' = Called(op, "none", "ValueError")
            /\ UNCHANGED writes
       ELSE /\ outcome \in WriteOutcomes
            /\ writes' = IF outcome = "error"
                         THEN writes \o <<WriteOf(op, arg), WriteOf(op, arg)>>
                         ELSE Append(writes, WriteOf(op, arg))
            /\ call' = Called(op, outcome,
                               IF outcome = "ok" THEN "returned" ELSE "raised")

\* A call of a command operation of the client, to its end.  Without a
\* session or a token it raises ValueError before any request; otherwise it
\* sends its PUT request once, and returns or raises with the response.
ClientCommand(op, arg, outcome) ==
    /\ call.seq < MaxCalls
    /\ IF ~session \/ token = "none"
       THEN /\ call' = Called(op, "none", "ValueError")
            /\ UNCHANGED writes
       ELSE /\ outcome \in WriteOutcomes
            /\ writes' = Append(writes, WriteOf(op, arg))
            /\ call' = Called(op, outcome,
                               IF outcome = "ok" THEN "returned" ELSE "raised")

\* An entity command (cover, lock switch, buttons): the client operation,
\* then async_request_refresh() when the operation returned.
EntityClientCommand(op, arg, outcome) ==
    /\ ClientCommand(op, arg, outcome)
    /\ refreshRequested' = (refreshRequested \/ call'.result = "returned")
    /\ UNCHANGED <<coordVars, clockVars, wsVars, lastDirection, buttonVars,
                   streamVars, pressLog>>
    /\ UNCHANGED <<authVars, setupPc, closePc, handshake, calc>>

\* The read operations of the client.
FetchOps == {"async_get_status", "async_get_weather_state"}

\* Faulty variant of ClientFetch: only the session is looked at, and the
\* request goes out without a token.
ClientFetchSessionOnly(op, outcome) ==
    /\ call.seq < MaxCalls
    /\ op \in FetchOps
    /\ IF ~session
       THEN call' = Called(op, "none", "ValueError")
       ELSE /\ outcome \in WriteOutcomes
            /\ call' = Called(op, outcome,
                               IF outcome = "ok" THEN "returned" ELSE "raised")
    /\ UNCHANGED <<coordVars, clockVars, wsVars, lastDirection, buttonVars,
                   refreshRequested, streamVars, pressLog>>
    /\ UNCHANGED <<authVars, setupPc, closePc, writes, handshake, calc>>

\* A call of async_get_status or async_get_weather_state, to its end.
\* Without a session or a token it raises ValueError before any request;
\* otherwise it sends its GET request, and returns or raises with the
\* response.
ClientFetch(op, outcome) ==
    /\ call.seq < MaxCalls
    /\ op \in FetchOps
    /\ IF ~session \/ token = "none"
       THEN call' = Called(op, "none", "ValueError")
       ELSE /\ outcome \in WriteOutcomes
            /\ call' = Called(op, outcome,
                               IF outcome = "ok" THEN "returned" ELSE "raised")
    /\ UNCHANGED <<coordVars, clockVars, wsVars, lastDirection, buttonVars,
                   refreshRequested, streamVars, pressLog>>
    /\ UNCHANGED <<authVars, setupPc, closePc, writes, handshake, calc>>

-----------------------------------------------------------------------------
(* RensonClient: async_logout, async_close, and the token on the device *)

\* How the logout request may go: answered 2xx, answered with an error
\* status (not looked at), or the transport raises.
LogoutOutcomes == {"ok", "status_error", "raised"}

\* Faulty variant of LogoutBody: the token is cleared only by a logout the
\* device accepted.
LogoutBodyOnSuccess(outcome) ==
    IF token = "none" \/ ~session \/ outcome # "ok"
    THEN UNCHANGED <<token, rejected>>
    ELSE token' = "none" /\ rejected' = FALSE

\* async_logout: nothing without a token or a session; otherwise the
\* request, whose failure is swallowed, and the token is cleared.
LogoutBody(outcome) ==
    IF token = "none" \/ ~session
    THEN UNCHANGED <<token, rejected>>
    ELSE token' = "none" /\ rejected' = FALSE

\* A call of async_logout, to its end.
AsyncLogout(outcome) ==
    /\ call.seq < MaxCalls
    /\ outcome \in LogoutOutcomes
    /\ LogoutBody(outcome)
    /\ call' = Called("async_logout",
                      IF token = "none" \/ ~session THEN "none" ELSE outcome,
                      "returned")
    /\ UNCHANGED <<coordVars, clockVars, wsVars, lastDirection, buttonVars,
                   refreshRequested, streamVars, pressLog>>
    /\ UNCHANGED <<session, setupPc, closePc, writes, handshake, calc>>

\* async_close up to its first await: async_disconnect_websocket is called.
CloseCall ==
    /\ closePc \in {"idle", "returned"}
    /\ closePc' = "disconnect"
    /\ DisconnectBegin

\* async_disconnect_websocket has returned: async_logout runs; then the
\* session, when there is one, is being closed.
CloseLogout(outcome) ==
    /\ closePc = "disconnect"
    /\ discPc = "idle"
    /\ outcome \in LogoutOutcomes
    /\ LogoutBody(outcome)
    /\ closePc' = (IF session THEN "session" ELSE "returned")
    /\ UNCHANGED <<coordVars, clockVars, wsVars, lastDirection, buttonVars,
                   refreshRequested, streamVars, pressLog>>
    /\ UNCHANGED <<session, setupPc, writes, call, handshake, calc>>

\* The session is closed and cleared; async_close returns.
CloseSession ==
    /\ closePc = "session"
    /\ closePc' = "returned"
    /\ session' = FALSE
    /\ UNCHANGED <<coordVars, clockVars, wsVars, lastDirection, buttonVars,
                   refreshRequested, streamVars, pressLog>>
    /\ UNCHANGED <<token, rejected, setupPc, writes, call, handshake, calc>>

\* The device stops accepting the token the client holds (it restarted, or
\* the token ran out).
DeviceRevokesToken ==
    /\ token = "ok"
    /\ token' = "revoked"
    /\ UNCHANGED <<coordVars, clockVars, wsVars, lastDirection, buttonVars,
                   refreshRequested, streamVars, pressLog>>
    /\ UNCHANGED <<session, rejected, setupPc, closePc, writes, call, handshake, calc>>

\* async_get_status was answered 401: raise_for_status raises, UpdateFailed
\* is raised as for every other failure, the next refresh is scheduled.  The
\* client keeps its token.
FetchStatusUnauthorized ==
    /\ pollPc = "status"
    /\ session
    /\ token = "revoked"
    /\ pollPc' = "idle"
    /\ rdata' = NoneVal
    /\ updateFailed' = updateFailed + 1
    /\ last' = [op |-> "refresh_failed", arg |-> NoneVal, weather |-> "na", lost |-> {}]
    /\ notified' = FALSE
    /\ ScheduleRefresh
    /\ sinceUpdate' = 0
    /\ rejected' = TRUE
    /\ UNCHANGED <<data, seen, sincePoll, wsVars, lastDirection, buttonVars,
                   refreshRequested, streamVars, pressLog>>
    /\ UNCHANGED <<token, session, setupPc, closePc, writes, call, handshake, calc>>

-----------------------------------------------------------------------------
(* async_setup_entry (__init__.py) and RensonClient.async_login *)

\* How the authenticate request may go: a token is returned; the device
\* answers with an error status (raise_for_status raises); the answer holds
\* no token (ValueError); the transport raises.
LoginOutcomes == {"ok", "http_error", "no_token", "transport"}

\* Faulty variant of SetupLogin: a failed login is swallowed and the setup
\* goes on to the coordinator.
SetupLoginSwallows(outcome) ==
    /\ setupPc = "login"
    /\ outcome \in LoginOutcomes
    /\ session' = TRUE
    /\ token' = (IF outcome = "ok" THEN "ok" ELSE token)
    /\ call' = Called("async_login", outcome,
                      IF outcome = "ok" THEN "returned" ELSE "raised")
    /\ setupPc' = "refresh"
    /\ refreshRequested' = TRUE
    /\ UNCHANGED <<coordVars, clockVars, wsVars, lastDirection, buttonVars,
                   streamVars, pressLog, rejected, closePc, writes, handshake, calc>>

\* client.async_login() in async_setup_entry: the session is created, the
\* request is made.  With a token the setup goes on to the coordinator and
\* its first refresh; any failure raises out of async_setup_entry.
SetupLogin(outcome) ==
    /\ setupPc = "login"
    /\ outcome \in LoginOutcomes
    /\ session' = TRUE
    /\ token' = (IF outcome = "ok" THEN "ok" ELSE token)
    /\ call' = Called("async_login", outcome,
                      IF outcome = "ok" THEN "returned" ELSE "raised")
    /\ setupPc' = (IF outcome = "ok" THEN "refresh" ELSE "loginFailed")
    /\ refreshRequested' = (outcome = "ok")
    /\ UNCHANGED <<coordVars, clockVars, wsVars, lastDirection, buttonVars,
                   streamVars, pressLog, rejected, closePc, writes, handshake, calc>>

\* Faulty variant of AsyncLogin: a login that fails drops the token the
\* client held.
AsyncLoginDropsToken(outcome) ==
    /\ call.seq < MaxCalls
    /\ outcome \in LoginOutcomes
    /\ closePc = "session" => outcome = "transport"
    /\ session' = TRUE
    /\ token' = (IF outcome = "ok" THEN "ok" ELSE "none")
    /\ rejected' = (IF outcome = "ok" THEN FALSE ELSE rejected)
    /\ call' = Called("async_login", outcome,
                      IF outcome = "ok" THEN "returned" ELSE "raised")
    /\ UNCHANGED <<coordVars, clockVars, wsVars, lastDirection, buttonVars,
                   refreshRequested, streamVars, pressLog>>
    /\ UNCHANGED <<setupPc, closePc, writes, handshake, calc>>

\* A call of async_login on a client, to its end: a session is created when
\* there is none, the request is made on it, and the token is stored only
\* when the answer carries one; every failure raises before the assignment.
\* While async_close awaits the close of the session, the session is there
\* and is closed already, so that the request raises.
AsyncLogin(outcome) ==
    /\ call.seq < MaxCalls
    /\ outcome \in LoginOutcomes
    /\ closePc = "session" => outcome = "transport"
    /\ session' = TRUE
    /\ token' = (IF outcome = "ok" THEN "ok" ELSE token)
    /\ rejected' = (IF outcome = "ok" THEN FALSE ELSE rejected)
    /\ call' = Called("async_login", outcome,
                      IF outcome = "ok" THEN "returned" ELSE "raised")
    /\ UNCHANGED <<coordVars, clockVars, wsVars, lastDirection, buttonVars,
                   refreshRequested, streamVars, pressLog>>
    /\ UNCHANGED <<setupPc, closePc, writes, handshake, calc>>

\* async_config_entry_first_refresh returned: the coordinator is put into
\* hass.data and the platforms are being set up.
SetupRegister ==
    /\ setupPc = "refresh"
    /\ pollPc = "idle"
    /\ ~refreshRequested
    /\ updateFailed = 0
    /\ setupPc' = "forward"
    /\ UNCHANGED <<coordVars, clockVars, wsVars, lastDirection, buttonVars,
                   refreshRequested, streamVars, pressLog>>
    /\ UNCHANGED <<authVars, closePc, writes, call, handshake, calc>>

\* The first refresh failed: async_config_entry_first_refresh raises and so
\* does async_setup_entry.
SetupNotReady ==
    /\ setupPc = "refresh"
    /\ pollPc = "idle"
    /\ ~refreshRequested
    /\ updateFailed > 0
    /\ setupPc' = "notReady"
    /\ UNCHANGED <<coordVars, clockVars, wsVars, lastDirection, buttonVars,
                   refreshRequested, streamVars, pressLog>>
    /\ UNCHANGED <<authVars, closePc, writes, call, handshake, calc>>

\* async_forward_entry_setups returned: async_setup_entry returns True.
SetupForward ==
    /\ setupPc = "forward"
    /\ setupPc' = "done"
    /\ UNCHANGED <<coordVars, clockVars, wsVars, lastDirection, buttonVars,
                   refreshRequested, streamVars, pressLog>>
    /\ UNCHANGED <<authVars, closePc, writes, call, handshake, calc>>

\* The coordinator is in hass.data[DOMAIN]; the platforms are set up.
Registered == setupPc \in {"forward", "done"}
PlatformsSetUp == setupPc = "done"

-----------------------------------------------------------------------------
(* RensonPergolaRoof (cover.py): the tilt conversions and set-tilt-position *)

\* Tilt angles are integers in tenths of a degree (625 is 62.5), cover
\* positions are integer percents.
DegreeInputs == -20 .. 1270
PercentInputs == -10 .. 110

\* round() of the rational n / d, d > 0: round half to even.
PyRoundDiv(n, d) ==
    LET q == n \div d
        r == n % d
    IN  IF 2 * r < d THEN q
        ELSE IF 2 * r > d THEN q + 1
        ELSE IF q % 2 = 0 THEN q ELSE q + 1

Min(a, b) == IF a <= b THEN a ELSE b
Max(a, b) == IF a >= b THEN a ELSE b

\* Faulty variant of DegreesToHa: the quotient is truncated, not rounded.
DegreesToHaTruncates(degrees) ==
    Min(100, Max(0, (degrees * 100) \div (TILT_MAX_DEGREES * 10)))

\* _degrees_to_ha(degrees), degrees in tenths:
\* min(100, max(0, round(degrees / TILT_MAX_DEGREES * 100)))
DegreesToHa(degrees) ==
    Min(100, Max(0, PyRoundDiv(degrees * 100, TILT_MAX_DEGREES * 10)))

\* Faulty variant of HaToDegrees: the position is not clamped.
HaToDegreesNoClamp(position) ==
    PyRoundDiv(position * TILT_MAX_DEGREES * 10, 100)

\* _ha_to_degrees(position), the result in tenths:
\* round(min(100, max(0, position)) / 100 * TILT_MAX_DEGREES, 1)
HaToDegrees(position) ==
    LET clamped == Min(100, Max(0, position))
    IN  PyRoundDiv(clamped * TILT_MAX_DEGREES * 10, 100)

\* current_cover_tilt_position for a tilt of `degrees` in the data.
DegreesToHaCall(degrees) ==
    /\ calc' = [fn |-> "_degrees_to_ha", arg |-> degrees, res |-> DegreesToHa(degrees)]
    /\ UNCHANGED <<coordVars, clockVars, wsVars, lastDirection, buttonVars,
                   refreshRequested, streamVars, pressLog>>
    /\ UNCHANGED <<authVars, setupPc, closePc, writes, call, handshake>>

\* async_set_cover_tilt_position(tilt_position = position): the position is
\* converted, the tilt command is sent, and a refresh is requested when the
\* command returned.
SetCoverTiltPosition(position, outcome) ==
    /\ Len(writes) < MaxTiltWrites
    /\ calc' = [fn |-> "_ha_to_degrees", arg |-> position, res |-> HaToDegrees(position)]
    /\ ClientCommand("async_set_roof_tilt", HaToDegrees(position), outcome)
    /\ refreshRequested' = (refreshRequested \/ call'.result = "returned")
    /\ UNCHANGED <<coordVars, clockVars, wsVars, lastDirection, buttonVars,
                   streamVars, pressLog>>
    /\ UNCHANGED <<authVars, setupPc, closePc, handshake>>

-----------------------------------------------------------------------------
(* Time *)

Saturate(n) == IF n > MaxClock THEN MaxClock ELSE n

\* n seconds pass while no refresh is in flight and the timer has n left.
Tick(n) ==
    /\ pollPc = "idle"
    /\ n >= 1
    /\ timer >= n
    /\ timer' = timer - n
    /\ sincePoll' = Saturate(sincePoll + n)
    /\ sinceUpdate' = Saturate(sinceUpdate + n)
    /\ UNCHANGED <<coordVars, wsVars, lastDirection, buttonVars, refreshRequested>>
    /\ UNCHANGED <<streamVars, pressLog, lifeVars>>

-----------------------------------------------------------------------------
(* Specifications *)

\* After construction: no data, no listener task, the memory is "closing";
\* setup asks for the first refresh.
Init ==
    /\ data = NoneVal
    /\ seen = NoneVal
    /\ pollPc = "idle"
    /\ rdata = NoneVal
    /\ updateFailed = 0
    /\ timer = -1
    /\ sincePoll = 0
    /\ sinceUpdate = 0
    /\ wsPc = "none"
    /\ ws = "none"
    /\ lastDirection = "closing"
    /\ pressPc = "idle"
    /\ issued = <<>>
    /\ refreshRequested = TRUE
    /\ notified = FALSE
    /\ last = [op |-> "init", arg |-> NoneVal, weather |-> "na", lost |-> {}]
    /\ taskRef = FALSE
    /\ msg = NoneVal
    /\ pingPc = "none"
    /\ pings = 0
    /\ discPc = "idle"
    /\ disconnects = 0
    /\ pressLog = <<>>
    /\ token = "ok"
    /\ session = TRUE
    /\ rejected = FALSE
    /\ setupPc = "done"
    /\ closePc = "idle"
    /\ writes = <<>>
    /\ call = NoCall
    /\ handshake = <<>>
    /\ calc = NoCalc
    /\ orphans = 0

\* The reconciler, the listener task and the cycle button.  Every refresh is
\* one that was asked for; the timer is the subject of SpecTimer.
Next ==
    \/ RequestedRefresh
    \/ \E snap \in Snapshots : FetchStatusOk(snap)
    \/ FetchStatusFail
    \/ \E weather \in WeatherOutcomes : FinishRefresh(weather)
    \/ \E delta \in Deltas : HandleWsMessage(delta)
    \/ WsConnect
    \/ WsConnectFail
    \/ WsStreamEnd
    \/ WsCleanup
    \/ CyclePress
    \/ CommandDone
    \/ CommandFailed
    \/ EntityCommand

Spec == Init /\ [][Next]_vars

\* The poll timer, second by second, with one response and one event.
NextTimer ==
    \/ TimerRefresh
    \/ RequestedRefresh
    \/ \E snap \in TimingSnapshots : FetchStatusOk(snap)
    \/ FetchStatusFail
    \/ \E weather \in TimingWeather : FinishRefresh(weather)
    \/ \E delta \in TimingDeltas : HandleWsMessage(delta)
    \/ WsConnect
    \/ WsConnectFail
    \/ WsStreamEnd
    \/ WsCleanup
    \/ EntityCommand
    \/ Tick(1)

SpecTimer == Init /\ [][NextTimer]_vars

\* The same with what the event loop guarantees: time passes and timers
\* fire, a due or requested refresh starts, a request sent gets an answer or
\* an error, the finally block of the listener runs.
FairTimer ==
    /\ WF_vars(Tick(1))
    /\ WF_vars(TimerRefresh)
    /\ WF_vars(RequestedRefresh)
    /\ WF_vars(FetchStatusFail \/ \E snap \in TimingSnapshots : FetchStatusOk(snap))
    /\ WF_vars(\E weather \in TimingWeather : FinishRefresh(weather))
    /\ WF_vars(WsCleanup)

SpecTimerFair == SpecTimer /\ FairTimer

-----------------------------------------------------------------------------
(* The poll timer against a device that may stop accepting the token *)

NextAuth ==
    \/ TimerRefresh
    \/ RequestedRefresh
    \/ \E snap \in TimingSnapshots : FetchStatusOk(snap)
    \/ FetchStatusFail
    \/ FetchStatusUnauthorized
    \/ \E weather \in {"None", "raise"} : FinishRefresh(weather)
    \/ \E delta \in TimingDeltas : HandleWsMessage(delta)
    \/ WsConnect
    \/ WsConnectFail
    \/ WsStreamEnd
    \/ WsCleanup
    \/ EntityCommand
    \/ Tick(1)
    \/ DeviceRevokesToken

SpecAuth == Init /\ [][NextAuth]_vars

SpecAuthFair == SpecAuth /\ FairTimer

-----------------------------------------------------------------------------
(* The cycle button on a device that reports its motion through push events *)

\* The cycle the button is named after: open, stop, close, stop.
CycleOrder == <<"open", "stop", "close", "stop">>

\* What the device reports as roof_device after it took the command: moving
\* in the command's direction after a move, idle after a stop.
ReportsAfter(cmd) ==
    IF cmd = "open" THEN {RoofOpening, RoofTiltingOpen}
    ELSE IF cmd = "close" THEN {RoofClosing, RoofTiltingClose}
    ELSE {RoofIdle}

\* The status responses of that device: without roof_device, and not fully
\* open as long as no command was given.
ScenarioSnapshots ==
    IF pressLog = <<>>
    THEN {snap \in Snapshots : /\ "roof_device" \notin DOMAIN snap
                                /\ PyRound(StackOf(snap)) < 100}
    ELSE {snap \in Snapshots : "roof_device" \notin DOMAIN snap}

\* The motion the last command caused has been reported.
MotionReported ==
    IF pressLog = <<>> THEN ~RoofMoving(data)
    ELSE /\ Has(data, "roof_device")
         /\ data["roof_device"] \in ReportsAfter(pressLog[Len(pressLog)])

\* The device pushes the motion its last command caused.
DeviceMotionPush(roof) ==
    /\ pressLog # <<>>
    /\ roof \in ReportsAfter(pressLog[Len(pressLog)])
    /\ HandleWsMessage([roof_device |-> roof])

\* The device pushes a stack position while or after it moved.
DevicePositionPush ==
    /\ pressLog # <<>>
    /\ HandleWsMessage([current_roof_positions |-> PosStackOnly])

\* A press of the cycle button once the earlier press is over and its
\* effect has been reported; the command goes to the log.
ScenarioPress ==
    /\ Len(pressLog) < MaxPresses
    /\ MotionReported
    /\ AsyncPress
    /\ pressLog' = Append(pressLog, CycleCommand(data, lastDirection))
    /\ UNCHANGED lifeVars

NextCycle ==
    \/ RequestedRefresh
    \/ \E snap \in ScenarioSnapshots : FetchStatusOk(snap)
    \/ FetchStatusFail
    \/ \E weather \in TimingWeather : FinishRefresh(weather)
    \/ WsConnect
    \/ ScenarioPress
    \/ CommandDone
    \/ \E roof \in {RoofOpening, RoofTiltingOpen, RoofClosing, RoofTiltingClose, RoofIdle} :
          DeviceMotionPush(roof)
    \/ DevicePositionPush

SpecCycle == Init /\ [][NextCycle]_vars

-----------------------------------------------------------------------------
(* The listener with its ping task, and the closing of the stream *)

NextStream ==
    \/ RequestedRefresh
    \/ \E snap \in TimingSnapshots : FetchStatusOk(snap)
    \/ FetchStatusFail
    \/ \E weather \in TimingWeather : FinishRefresh(weather)
    \/ EntityCommand
    \/ WsConnect
    \/ WsConnectFail
    \/ WsStreamEnd
    \/ WsCleanup
    \/ WsCleanupInterrupted
    \/ \E delta \in TimingDeltas : HandleWsMessage(delta)
    \/ PingSend
    \/ PingSendFail
    \/ PingLoopExit
    \/ DisconnectCall
    \/ DisconnectResume
    \/ DisconnectClose

SpecStream == Init /\ [][NextStream]_vars

\* What the event loop guarantees: the sleep of the ping loop ends and the
\* loop goes on, the finally block of the listener runs, a cancelled task
\* ends and the call awaiting it resumes.
FairStream ==
    /\ WF_vars(PingSend)
    /\ WF_vars(PingLoopExit)
    /\ WF_vars(WsCleanup)
    /\ WF_vars(WsCleanupInterrupted)
    /\ WF_vars(DisconnectResume)
    /\ WF_vars(DisconnectClose)

SpecStreamFair == SpecStream /\ FairStream

-----------------------------------------------------------------------------
(* The calls of the client: commands and logout, beside the refresh *)

NextCalls ==
    \/ RequestedRefresh
    \/ \E snap \in TimingSnapshots : FetchStatusOk(snap)
    \/ FetchStatusFail
    \/ \E weather \in {"None", "raise"} : FinishRefresh(weather)
    \/ \E c \in CommandCalls, outcome \in {"ok", "error"} :
          EntityClientCommand(c.op, c.arg, outcome)
    \/ \E outcome \in LogoutOutcomes : AsyncLogout(outcome)
    \/ DeviceRevokesToken

SpecCalls == Init /\ [][NextCalls]_vars

-----------------------------------------------------------------------------
(* The setup of a config entry, from the login on *)

\* Before async_setup_entry: the client is constructed, nothing else is.
InitSetup ==
    /\ data = NoneVal
    /\ seen = NoneVal
    /\ pollPc = "idle"
    /\ rdata = NoneVal
    /\ updateFailed = 0
    /\ timer = -1
    /\ sincePoll = 0
    /\ sinceUpdate = 0
    /\ wsPc = "none"
    /\ ws = "none"
    /\ lastDirection = "closing"
    /\ pressPc = "idle"
    /\ issued = <<>>
    /\ refreshRequested = FALSE
    /\ notified = FALSE
    /\ last = [op |-> "init", arg |-> NoneVal, weather |-> "na", lost |-> {}]
    /\ taskRef = FALSE
    /\ msg = NoneVal
    /\ pingPc = "none"
    /\ pings = 0
    /\ discPc = "idle"
    /\ disconnects = 0
    /\ pressLog = <<>>
    /\ token = "none"
    /\ session = FALSE
    /\ rejected = FALSE
    /\ setupPc = "login"
    /\ closePc = "idle"
    /\ writes = <<>>
    /\ call = NoCall
    /\ handshake = <<>>
    /\ calc = NoCalc
    /\ orphans = 0

NextSetup ==
    \/ \E outcome \in LoginOutcomes : SetupLogin(outcome)
    \/ RequestedRefresh
    \/ \E snap \in Snapshots : FetchStatusOk(snap)
    \/ FetchStatusFail
    \/ \E weather \in WeatherOutcomes : FinishRefresh(weather)
    \/ SetupRegister
    \/ SetupNotReady
    \/ SetupForward
    \/ WsConnect
    \/ WsConnectFail
    \/ WsStreamEnd
    \/ WsCleanup
    \/ \E delta \in Deltas : HandleWsMessage(delta)
    \/ PlatformsSetUp /\ EntityCommand

SpecSetup == InitSetup /\ [][NextSetup]_vars

-----------------------------------------------------------------------------
(* The closing of the client beside the listener and the refresh *)

NextClose ==
    \/ NextStream
    \/ FinishRefresh("raise")
    \/ WsNotAuthenticated
    \/ CloseCall
    \/ \E outcome \in LogoutOutcomes : CloseLogout(outcome)
    \/ CloseSession

SpecClose == Init /\ [][NextClose]_vars

-----------------------------------------------------------------------------
(* The operations of the client before and after logout and close *)

NextUnauth ==
    \/ RequestedRefresh
    \/ \E snap \in TimingSnapshots : FetchStatusOk(snap)
    \/ FetchStatusFail
    \/ \E weather \in {"None", "raise"} : FinishRefresh(weather)
    \/ \E c \in CommandCalls, outcome \in {"ok", "error"} :
          call.seq < MaxCallsAtClose /\ EntityClientCommand(c.op, c.arg, outcome)
    \/ \E op \in FetchOps, outcome \in {"ok", "error"} :
          call.seq < MaxCallsAtClose /\ ClientFetch(op, outcome)
    \/ CloseCall
    \/ \E outcome \in LogoutOutcomes : CloseLogout(outcome)
    \/ CloseSession
    \/ DisconnectResume
    \/ DisconnectClose
    \/ WsConnect
    \/ WsConnectFail
    \/ WsNotAuthenticated
    \/ WsStreamEnd
    \/ WsCleanup
    \/ WsCleanupInterrupted

SpecUnauth == Init /\ [][NextUnauth]_vars

-----------------------------------------------------------------------------
(* The token and the session of a client through login, logout and close *)

NextSession ==
    \/ \E outcome \in LoginOutcomes : AsyncLogin(outcome)
    \/ \E outcome \in LogoutOutcomes : AsyncLogout(outcome)
    \/ CloseCall
    \/ \E outcome \in LogoutOutcomes : CloseLogout(outcome)
    \/ CloseSession
    \/ DeviceRevokesToken

SpecSession == InitSetup /\ [][NextSession]_vars

-----------------------------------------------------------------------------
(* The listener tasks of one client beside refreshes and disconnects *)

NextListeners ==
    \/ NextStream
    \/ OrphanEnd

SpecListeners == Init /\ [][NextListeners]_vars

-----------------------------------------------------------------------------
(* The tilt conversions on every input *)

NextTilt == \E degrees \in DegreeInputs : DegreesToHaCall(degrees)

SpecTilt == Init /\ [][NextTilt]_vars

NextTiltCommand ==
    \E position \in PercentInputs, outcome \in {"ok", "error"} :
        SetCoverTiltPosition(position, outcome)

SpecTiltCommand == Init /\ [][NextTiltCommand]_vars

\* A tilt position is set, the device reaches the angle of the command, and
\* the cover reads its tilt position from that angle.
NextTiltReadBack ==
    \/ \E position \in PercentInputs, outcome \in {"ok", "error"} :
          SetCoverTiltPosition(position, outcome)
    \/ /\ writes # <<>>
       /\ DegreesToHaCall(writes[Len(writes)].body.json.value)

SpecTiltReadBack == Init /\ [][NextTiltReadBack]_vars

-----------------------------------------------------------------------------
(* The opening of the stream, message by message, beside the refresh *)

NextHandshake ==
    \/ RequestedRefresh
    \/ \E snap \in TimingSnapshots : FetchStatusOk(snap)
    \/ FetchStatusFail
    \/ \E weather \in TimingWeather : FinishRefresh(weather)
    \/ EntityCommand
    \/ WsOpened
    \/ WsSendAuthenticate
    \/ WsSendSubscribe
    \/ WsHandshakeFail
    \/ WsConnectFail
    \/ WsStreamEnd
    \/ WsCleanup
    \/ \E delta \in TimingDeltas : HandleWsMessage(delta)
    \/ PingSend
    \/ PingSendFail
    \/ PingLoopExit

SpecHandshake == Init /\ [][NextHandshake]_vars

-----------------------------------------------------------------------------
(* The read loop of the listener on every kind of frame *)

NextRead ==
    \/ RequestedRefresh
    \/ \E snap \in TimingSnapshots : FetchStatusOk(snap)
    \/ FetchStatusFail
    \/ \E weather \in TimingWeather : FinishRefresh(weather)
    \/ WsConnect
    \/ WsConnectFail
    \/ WsStreamEnd
    \/ WsCleanup
    \/ \E raw \in Frames : ListenMessage(raw)
    \/ EntityCommand

SpecRead == Init /\ [][NextRead]_vars

-----------------------------------------------------------------------------
(* The direction memory under every kind of roof_device record *)

NextMemory ==
    \/ RequestedRefresh
    \/ \E snap \in MemorySnapshots : FetchStatusOk(snap)
    \/ FetchStatusFail
    \/ \E weather \in TimingWeather : FinishRefresh(weather)
    \/ WsConnect
    \/ \E delta \in MemoryDeltas : HandleWsMessage(delta)
    \/ CyclePress
    \/ CommandDone
    \/ CommandFailed

SpecMemory == Init /\ [][NextMemory]_vars

-----------------------------------------------------------------------------
(* Steps of the reconciler, as the properties below name them *)

\* A push event carrying `delta` is merged.
PushStep(delta) == HandleWsMessage(delta)

\* A refresh whose status fetch succeeded finishes and stores its result.
RefreshDoneStep == pollPc = "weather" /\ pollPc' = "idle"

\* A refresh ends at the status fetch, without a status response.
RefreshFailedStep == pollPc = "status" /\ pollPc' # "status" /\ rdata' = NoneVal

\* The listeners are told of new coordinator data of the memory's inputs.
MemoryUpdateStep == (\E delta \in MemoryDeltas : PushStep(delta)) \/ RefreshDoneStep

\* roof_device.direction of d, "idle" when the record has none.
DirectionOf(d) ==
    IF Has(d, "roof_device") /\ "direction" \in DOMAIN d["roof_device"]
    THEN d["roof_device"]["direction"] ELSE "idle"

\* The read loop takes the frame raw.
ReadStep(raw) == ListenMessage(raw)

\* The frame is text that decodes to a keyed record.
IsRecord(raw) == raw.type = "TEXT" /\ raw.decodes /\ raw.json.kind = "dict"

\* The frame is a keyed record whose type field is a string of the set types.
TypeIn(raw, types) ==
    /\ IsRecord(raw)
    /\ "type" \in DOMAIN raw.json.dict
    /\ raw.json.dict["type"].kind = "str"
    /\ raw.json.dict["type"].str \in types

\* The frame is a keyed record whose data field is a keyed record.
HasRecordData(raw) ==
    /\ IsRecord(raw)
    /\ "data" \in DOMAIN raw.json.dict
    /\ raw.json.dict["data"].kind = "dict"

\* The four protocol types and the five topics, as the claims name them.
ProtocolTypes == {"Authenticated", "SubscriptionsUpdated", "Ping", "Pong"}
Topics ==
    { "ROOF_STATUS_CHANGED", "SKYE2_STATUS_CHANGED", "ROOF_SELF_TEST_STATUS_CHANGED",
      "DIGITAL_INPUT_STATUS_CHANGED", "SYSTEM_STATUS_CHANGED" }

\* Nothing of the coordinator or of the entities changes: no callback ran.
NoCallback == UNCHANGED <<coordVars, clockVars, lastDirection>>

\* A call of async_disconnect_websocket returns.
DisconnectReturnStep == disconnects' # disconnects

\* The send of a Ping fails.
PingFailStep == pingPc = "sleeping" /\ pingPc' = "failed"

\* The cycle press picks its command.
PressStep == pressPc # "cmd" /\ pressPc' = "cmd"

\* The listener has sent Authenticate, then Subscribe with the five topics.
HandshakeDone ==
    /\ Len(handshake) = 2
    /\ handshake[1].type = "Authenticate"
    /\ handshake[2] = Subscribe(<<"ROOF_STATUS_CHANGED", "SKYE2_STATUS_CHANGED",
                                  "ROOF_SELF_TEST_STATUS_CHANGED",
                                  "DIGITAL_INPUT_STATUS_CHANGED",
                                  "SYSTEM_STATUS_CHANGED">>)

\* The listener fails before its read loop.
OpenFailStep == wsPc \in {"connecting", "handshake"} /\ wsPc' = "cleanup"

\* A refresh starts.
RefreshStartStep == pollPc = "idle" /\ pollPc' = "status"

\* A refresh creates a listener task.
ListenerStartStep ==
    /\ RefreshStartStep
    /\ taskRef'
    /\ wsPc' = "connecting"
    /\ ~taskRef \/ wsPc \in {"none", "done"}

\* The listener tasks of the client that have not finished.
ListenerCount == orphans + (IF ListenerRunning THEN 1 ELSE 0)

\* A call of the client operation op ends.
CallStep(op) == call'.seq = call.seq + 1 /\ call'.op = op

\* The client holds a session and a token.
Authenticated == session /\ token # "none"

\* The command operations of the client.
CommandOps == {c.op : c \in CommandCalls}

-----------------------------------------------------------------------------
(* C1: roof_device is sticky.  Once roof_device is in coordinator.data no
   step removes it, and a refresh whose status response lacks roof_device, or
   a push event whose delta lacks it, leaves it with the value it had. *)
C1_RoofDeviceSticky ==
    [][ Has(data, "roof_device") =>
          /\ Has(data', "roof_device")
          /\ (RefreshDoneStep /\ "roof_device" \notin DOMAIN rdata)
                => data'["roof_device"] = data["roof_device"]
          /\ \A delta \in Deltas :
                (PushStep(delta) /\ "roof_device" \notin DOMAIN delta)
                   => data'["roof_device"] = data["roof_device"] ]_vars

\* C1 witness: a refresh whose response lacked roof_device has finished and
\* the roof_device pushed before it is still there.
C1_Witness ==
    /\ last.op = "refresh_ok"
    /\ "roof_device" \notin DOMAIN last.arg
    /\ Has(data, "roof_device")
    /\ data["roof_device"] = RoofOpening

-----------------------------------------------------------------------------
(* C2: a failed status fetch leaves coordinator.data (and what the listeners
   read) exactly as it was, goes straight back to idle without fetching the
   weather, raises UpdateFailed once for that refresh, and arms the timer so
   that the next tick retries. *)
C2_FailureKeepsState ==
    [][ RefreshFailedStep =>
          /\ data' = data
          /\ seen' = seen
          /\ pollPc' = "idle"
          /\ updateFailed = 0
          /\ updateFailed' = 1
          /\ timer' = UPDATE_INTERVAL ]_vars

\* C2 witness: after a failed refresh that left known data in place, the
\* timer has run the whole interval and the retry is in flight.
C2_Witness ==
    /\ last.op = "refresh_failed"
    /\ Has(data, "roof_device")
    /\ Has(data, "state")
    /\ pollPc = "status"
    /\ sinceUpdate = UPDATE_INTERVAL
    /\ ~refreshRequested

-----------------------------------------------------------------------------
(* C3: the push merge is field-wise.  When a delta is handled while data is
   present, every top-level key absent from the delta keeps its value and
   every key of the delta takes the delta's value. *)
C3_PushMergeFieldwise ==
    [][ \A delta \in Deltas :
          (PushStep(delta) /\ data # NoneVal) =>
             /\ DOMAIN data' = DOMAIN data \cup DOMAIN delta
             /\ \A k \in DOMAIN data \ DOMAIN delta : data'[k] = data[k]
             /\ \A k \in DOMAIN delta : data'[k] = delta[k] ]_vars

\* C3 witness: a positions delta was merged into data that held state and
\* roof_device, and both are still there.
C3_Witness ==
    /\ last.op = "push"
    /\ last.arg = [current_roof_positions |-> PosStackOnly]
    /\ Has(data, "state")
    /\ Has(data, "roof_device")
    /\ data["current_roof_positions"] = PosStackOnly

-----------------------------------------------------------------------------
(* C4 as claimed: a successful refresh keeps every key that was known before
   and is missing from the response (weather_state included). *)
C4_RefreshKeepsMissing ==
    [][ (RefreshDoneStep /\ data # NoneVal) =>
          \A k \in DOMAIN data : Has(data', k) ]_vars

(* C4 amended: a successful refresh replaces the data by the status response,
   with weather_state set when the weather fetch gave a value.  Of the keys
   known before and missing from that, only roof_device keeps its previous
   value; every other one is dropped. *)
C4_RefreshReplaces ==
    [][ \A weather \in WeatherOutcomes :
          FinishRefresh(weather) =>
            LET fetched == IF weather \in WeatherValues
                           THEN DictSet(rdata, "weather_state", weather)
                           ELSE rdata
                kept == IF Has(data, "roof_device") /\ "roof_device" \notin DOMAIN fetched
                        THEN {"roof_device"} ELSE {}
            IN  /\ DOMAIN data' = DOMAIN fetched \cup kept
                /\ \A k \in DOMAIN fetched : data'[k] = fetched[k]
                /\ \A k \in kept : data'[k] = data[k] ]_vars

\* C4 witness: a refresh without a weather value has dropped the known
\* weather_state while keeping the pushed roof_device.
C4_Witness ==
    /\ last.op = "refresh_ok"
    /\ last.weather \in {"raise", "None"}
    /\ "weather_state" \in last.lost
    /\ Has(data, "roof_device")
    /\ "roof_device" \notin DOMAIN last.arg

-----------------------------------------------------------------------------
(* C5 as claimed: once positions.stack or positions.tilt is known, no step
   unsets it. *)
C5_PositionsNeverUnset ==
    [][ \A f \in {"stack", "tilt"} : PosKnown(data, f) => PosKnown(data', f) ]_vars

(* C5 amended: the positions record is replaced as a whole.  A delta or a
   status response that carries a positions record makes it the record, so a
   field it lacks becomes unknown; a delta without a positions record leaves
   the record as it was; a status response without one removes the record. *)
C5_PositionsReplacedWhole ==
    [][ /\ \A delta \in Deltas :
             PushStep(delta) =>
                IF "current_roof_positions" \in DOMAIN delta
                THEN data'["current_roof_positions"] = delta["current_roof_positions"]
                ELSE \A f \in {"stack", "tilt"} :
                        /\ PosKnown(data', f) <=> PosKnown(data, f)
                        /\ PosKnown(data, f) =>
                              data'["current_roof_positions"][f]
                                 = data["current_roof_positions"][f]
        /\ RefreshDoneStep =>
             IF "current_roof_positions" \in DOMAIN rdata
             THEN data'["current_roof_positions"] = rdata["current_roof_positions"]
             ELSE ~Has(data', "current_roof_positions") ]_vars

\* C5 witness: a delta carrying only positions.stack was merged and the tilt
\* known before is gone.
C5_Witness ==
    /\ last.op = "push"
    /\ last.arg = [current_roof_positions |-> PosStackOnly]
    /\ "tilt" \in last.lost
    /\ data["current_roof_positions"] = PosStackOnly

-----------------------------------------------------------------------------
(* C6 as claimed: the poll timer is not reset by push updates, so the time
   since the previous poll never exceeds one interval. *)
C6_PollEveryInterval == sincePoll <= UPDATE_INTERVAL

(* C6 amended: every push update re-arms the poll timer to one full
   interval.  While no refresh is in flight the timer is due exactly one
   interval after the most recent poll or push update, so push updates that
   keep arriving within the interval keep postponing the poll. *)
C6_PushResetsTimer ==
    (pollPc = "idle" /\ timer >= 0) => timer + sinceUpdate = UPDATE_INTERVAL

\* C6 witness: a push update has been merged and the previous poll is more
\* than one interval ago.
C6_Witness ==
    /\ last.op = "push"
    /\ pollPc = "idle"
    /\ sincePoll > UPDATE_INTERVAL

-----------------------------------------------------------------------------
(* C7: the stream never reconnects by itself.  When the read loop ends the
   task runs its finally block and ends with the handle cleared; a listener
   is started only by the start of a refresh that finds the stream not
   connected; and with refreshes going on, a finished listener is followed
   by a new one. *)
C7_ReopenedByRefresh ==
    /\ [][ (wsPc = "reading" /\ wsPc' # "reading") => wsPc' = "cleanup" ]_vars
    /\ [][ (wsPc # "connecting" /\ wsPc' = "connecting") =>
              (pollPc = "idle" /\ pollPc' = "status" /\ ~WsConnected) ]_vars
    /\ [](wsPc = "done" => ws = "none")
    /\ (wsPc = "cleanup") ~> (wsPc = "done" /\ ws = "none")
    /\ (wsPc = "done") ~> (wsPc = "connecting")

\* C7 witness: a refresh is in flight that has started a new listener after
\* an earlier one had delivered an event.
C7_Witness ==
    /\ wsPc = "connecting"
    /\ pollPc = "status"
    /\ Has(data, "roof_device")

-----------------------------------------------------------------------------
(* C8: after every merge, push or poll, the listeners have been notified and
   what they read is the whole current coordinator.data. *)
C8_ListenersSeeFullState ==
    /\ seen = data
    /\ last.op \in {"push", "refresh_ok"} => notified

\* C8 witness: a push was merged into larger data and the listeners read
\* the merged data, which holds more than the delta.
C8_Witness ==
    /\ last.op = "push"
    /\ notified
    /\ seen = data
    /\ DOMAIN last.arg # DOMAIN data
    /\ DOMAIN last.arg \subseteq DOMAIN data

-----------------------------------------------------------------------------
(* C9: whatever the weather fetch does, the refresh succeeds: no
   UpdateFailed, the status response is stored; a weather value, when there
   is one, becomes weather_state. *)
C9_WeatherNeverFails ==
    [][ (pollPc = "weather" /\ pollPc' # "weather") =>
          /\ pollPc' = "idle"
          /\ updateFailed' = 0
          /\ last'.op = "refresh_ok"
          /\ \A k \in DOMAIN rdata \ {"weather_state"} : data'[k] = rdata[k]
          /\ \A weather \in WeatherValues :
                FinishRefresh(weather) => data'["weather_state"] = weather ]_vars

\* C9 witness: a refresh whose weather fetch raised has finished well.
C9_Witness ==
    /\ last.op = "refresh_ok"
    /\ last.weather = "raise"
    /\ updateFailed = 0
    /\ pollPc = "idle"
    /\ Has(data, "current_roof_positions")

-----------------------------------------------------------------------------
(* C10: a cycle press while roof_device.state is "moving" issues the stop
   command and nothing else, whatever the memory and the stack are, and the
   press leaves the memory as it is, also when the command has finished. *)
C10_MovingPressStops ==
    [][ /\ (pressPc # "cmd" /\ pressPc' = "cmd" /\ RoofMoving(data)) =>
              (issued' = <<"stop">> /\ lastDirection' = lastDirection)
        /\ (pressPc = "cmd" /\ pressPc' # "cmd" /\ issued = <<"stop">>) =>
              (issued' = issued /\ lastDirection' = lastDirection) ]_vars

\* C10 witness: a press has stopped a moving roof although the stack was
\* at 100 and the memory "opening", and is over.
C10_Witness ==
    /\ pressPc = "idle"
    /\ issued = <<"stop">>
    /\ RoofMoving(data)
    /\ lastDirection = "opening"
    /\ PosKnown(data, "stack")
    /\ data["current_roof_positions"]["stack"] = 1000

-----------------------------------------------------------------------------
(* C11: a cycle press while the roof is not moving, the memory is "closing"
   and the rounded stack is below 100 (stack 0 and no data at all included)
   issues the open command and nothing else; when the command has succeeded
   the memory is "opening". *)
C11_ClosingPressOpens ==
    [][ /\ (PressStep /\ ~RoofMoving(data) /\ lastDirection = "closing"
                /\ PyRound(StackOf(data)) < 100) =>
              issued' = <<"open">>
        /\ (CommandDone /\ issued = <<"open">>) => lastDirection' = "opening" ]_vars

\* C11 witness: a press on a roof with stack 0 that never reported a motion
\* has issued open, the command is done and the memory is "opening".
C11_Witness ==
    /\ pressPc = "idle"
    /\ issued = <<"open">>
    /\ lastDirection = "opening"
    /\ ~Has(data, "roof_device")
    /\ PosKnown(data, "stack")
    /\ StackOf(data) = 0

-----------------------------------------------------------------------------
(* C12: a cycle press while the roof is not moving and the memory is
   "opening" or the rounded stack is at least 100 issues the full close and
   nothing else; when the command has succeeded the memory is "closing".  The
   stack alone is enough: with memory "closing" and a stack that rounds to
   100 the press closes. *)
C12_OpenPressCloses ==
    [][ /\ (PressStep /\ ~RoofMoving(data)
                /\ (lastDirection = "opening" \/ PyRound(StackOf(data)) >= 100)) =>
              issued' = <<"close">>
        /\ (CommandDone /\ issued = <<"close">>) => lastDirection' = "closing" ]_vars

\* C12 witness: the press in flight has issued the full close with the
\* memory "closing", on a roof that never reported a motion and whose stack
\* of 99.5 rounds to 100.
C12_Witness ==
    /\ pressPc = "cmd"
    /\ issued = <<"close">>
    /\ lastDirection = "closing"
    /\ ~Has(data, "roof_device")
    /\ StackOf(data) = 995

-----------------------------------------------------------------------------
(* C13: on a roof that starts stopped and not fully open, with the memory at
   its default, and whose motion is reported through push events before the
   next press, the first four presses issue open, stop, full close, stop, in
   this order. *)
C13_FourPresses ==
    \A i \in 1..Len(pressLog) : i <= Len(CycleOrder) => pressLog[i] = CycleOrder[i]

\* C13 witness: four presses are over and the log is the whole cycle.
C13_Witness ==
    /\ pressLog = CycleOrder
    /\ pressPc = "idle"
    /\ lastDirection = "closing"
    /\ data["roof_device"] = RoofIdle

-----------------------------------------------------------------------------
(* C14: the memory starts as "closing", and every update of coordinator.data,
   by a push event or by a refresh, leaves it as the transition rule says:
   "opening" when the new roof_device.state is "moving" and the direction is
   tilting_open or stacking, "closing" when it is "moving" and the direction
   is tilting_close or unstacking, and what it was in every other case (not
   moving, no roof_device, no data, direction idle, unknown or missing). *)
C14_MemoryFollowsUpdates ==
    /\ lastDirection = "closing"
    /\ [][ ((\E delta \in MemoryDeltas : PushStep(delta)) \/ RefreshDoneStep) =>
              lastDirection' =
                 IF RoofMoving(data') /\ DirectionOf(data') \in {"tilting_open", "stacking"}
                 THEN "opening"
                 ELSE IF RoofMoving(data')
                         /\ DirectionOf(data') \in {"tilting_close", "unstacking"}
                 THEN "closing"
                 ELSE lastDirection ]_vars

\* C14 witness: without any press, a tilting_open report has made the memory
\* "opening" and a later report in an opening direction with the roof not
\* moving has left it there.
C14_Witness ==
    /\ issued = <<>>
    /\ lastDirection = "opening"
    /\ last.op = "push"
    /\ last.arg = [roof_device |-> [state |-> "ready", direction |-> "stacking"]]
    /\ data["roof_device"] = last.arg["roof_device"]

-----------------------------------------------------------------------------
(* C15: a message that is a keyed record and whose type is neither a
   protocol type nor a topic (no type field, an unknown name, a type that is
   not a string) gives no event: the callback is not called, and
   coordinator.data, what the listeners read, the poll timer and the
   direction memory stay as they are. *)
C15_UnknownTypeNoEvent ==
    [][ \A raw \in Frames :
          (ReadStep(raw) /\ IsRecord(raw) /\ ~TypeIn(raw, ProtocolTypes \cup Topics))
             => NoCallback ]_vars

\* C15 witness: the read loop has taken a message without a type field that
\* carries a roof_device, and the data, filled by a refresh, has none.
C15_Witness ==
    /\ msg = MessageNoType(JDict([roof_device |-> RoofOpening]))
    /\ wsPc = "reading"
    /\ data # NoneVal
    /\ ~Has(data, "roof_device")

-----------------------------------------------------------------------------
(* C16: the topics the client subscribes to are the five named ones.  A
   message of one of them whose data is a keyed record is passed on: the
   callback gets exactly that record and merges it.  Every other frame, the
   four protocol types included, gives no event. *)
C16_ClassifierPassesTopics ==
    /\ {_WS_SUBSCRIPTIONS[i] : i \in 1..Len(_WS_SUBSCRIPTIONS)} = Topics
    /\ [][ \A raw \in Frames :
              ReadStep(raw) =>
                 IF TypeIn(raw, Topics) /\ HasRecordData(raw)
                 THEN LET payload == raw.json.dict["data"].dict
                      IN  /\ last'.op = "push"
                          /\ last'.arg = payload
                          /\ notified'
                          /\ data' = IF data = NoneVal THEN payload
                                     ELSE DictMerge(data, payload)
                 ELSE NoCallback ]_vars

\* C16 witness: a SYSTEM_STATUS_CHANGED event was passed on and merged, and
\* the Pong taken after it, which carries a roof_device, was not.
C16_Witness ==
    /\ last.op = "push"
    /\ last.arg = [state |-> "ready"]
    /\ msg = Message(JStr("Pong"), JDict([roof_device |-> RoofOpening]))
    /\ Has(data, "state")
    /\ ~Has(data, "roof_device")

-----------------------------------------------------------------------------
(* C17: a malformed message (text that does not decode, a JSON value that is
   not a keyed record, a topic message whose data is missing or not a keyed
   record) is swallowed by the classifier: no callback, so nothing of the
   coordinator changes, no exception, and the read loop stays in place on the
   open connection, ready for the next message. *)
C17_MalformedSwallowed ==
    [][ \A raw \in Frames :
          (/\ ReadStep(raw)
           /\ raw.type = "TEXT"
           /\ \/ ~raw.decodes
              \/ ~IsRecord(raw)
              \/ TypeIn(raw, Topics) /\ ~HasRecordData(raw))
             => /\ NoCallback
                /\ wsPc' = "reading"
                /\ ws' = "open"
                /\ pingPc' = pingPc ]_vars

\* C17 witness: a topic message whose data is a string was taken after an
\* event had been delivered; the loop is reading, the data has no
\* roof_device.
C17_Witness ==
    /\ msg = Message(JStr("SKYE2_STATUS_CHANGED"), JStr("moving"))
    /\ wsPc = "reading"
    /\ ws = "open"
    /\ last.op = "push"
    /\ ~Has(data, "roof_device")

-----------------------------------------------------------------------------
(* C18: whenever a call of async_disconnect_websocket returns, in whatever
   state it was made (never opened included), no listener is running, no
   ping task is running, the socket is not open (ws_connected is false), and
   a second call would find nothing to cancel and nothing to close. *)
C18_DisconnectIdempotent ==
    [][ DisconnectReturnStep =>
          /\ ~ListenerRunning'
          /\ pingPc' # "sleeping"
          /\ ~WsConnected'
          /\ ~WsTaskRunning' ]_vars

-----------------------------------------------------------------------------
(* C19: a failure to send the keepalive Ping is swallowed.  The step in which
   the send fails changes nothing but the ping task: the listener stays where
   it was (the read loop is not ended), the socket stays as it was (the
   connection is not closed), the task reference stays, and nothing of the
   coordinator changes (no DeviceState change, no failed update).  After it
   the read loop of the task the client holds leaves its place only by its
   own end or by cancellation, both of which take it to the finally block. *)
C19_PingFailureSwallowed ==
    /\ [][ PingFailStep =>
             /\ wsPc' = wsPc
             /\ ws' = ws
             /\ taskRef' = taskRef
             /\ NoCallback
             /\ UNCHANGED <<refreshRequested, discVars>> ]_vars
    /\ [][ (pingPc = "failed" /\ WsTaskRunning /\ wsPc = "reading" /\ wsPc' # "reading")
             => wsPc' = "cleanup" ]_vars

\* C19 witness: the send of a Ping has failed, after the device data had
\* been stored; the listener is still reading on the open socket.
C19_Witness ==
    /\ pingPc = "failed"
    /\ wsPc = "reading"
    /\ ws = "open"
    /\ Has(data, "roof_device")
    /\ updateFailed = 0

-----------------------------------------------------------------------------
(* C20, as the specification states it: in every state where the connection
   is open and the listener is reading, a further Ping is eventually sent,
   unless the connection closes or the listener leaves the read loop. *)
C20_KeepaliveForLife ==
    \A n \in 0 .. (PingModulus - 1) :
        (ws = "open" /\ wsPc = "reading" /\ pings = n)
            ~> (pings # n \/ ws # "open" \/ wsPc # "reading")

(* C20, amended: as long as no send of a Ping has failed on the connection,
   a further Ping is eventually sent while the connection is open and the
   listener is reading; and the ping task of the listener the client holds
   stops sleeping only when a send fails (nothing is sent then and the
   connection is left open), when it finds the connection closed, or when
   the finally block of the listener cancels it.  Once it has stopped no
   Ping is sent for that listener. *)
C20_KeepaliveUntilFailure ==
    /\ \A n \in 0 .. (PingModulus - 1) :
          (ws = "open" /\ wsPc = "reading" /\ pingPc # "failed" /\ pings = n)
              ~> (pings # n \/ ws # "open" \/ wsPc # "reading" \/ pingPc = "failed")
    /\ [][ (WsTaskRunning /\ pingPc = "sleeping" /\ pingPc' # "sleeping")
             => \/ pingPc' = "failed" /\ ws = "open" /\ pings' = pings
                \/ pingPc' = "ended" /\ ws # "open" /\ pings' = pings
                \/ pingPc' = "none" /\ wsPc \in {"cleanup", "interrupted"}
                     /\ wsPc' = "done" ]_vars
    /\ [][ pings' # pings => pingPc = "sleeping" /\ ws = "open" ]_vars

\* C20 witness: Pings were sent, then a send failed; the connection is open
\* and the listener is reading, with no ping task asleep.
C20_Witness ==
    /\ pings > 0
    /\ pingPc = "failed"
    /\ ws = "open"
    /\ wsPc = "reading"
    /\ WsTaskRunning

-----------------------------------------------------------------------------
(* C21: each call of a command operation (open, close, stop, set position,
   set tilt, set locked) on an authenticated client sends exactly one REST
   write, the one of the operation and its argument; when that write fails
   the call raises, the log of writes has grown by that one write only (no
   retry) and the caller's refresh request does not run.  No other step
   sends a write; a client without session or token raises before any. *)
C21_OneWritePerCommand ==
    /\ [][ \A op \in CommandOps :
             CallStep(op) =>
               /\ Len(writes') <= Len(writes) + 1
               /\ Authenticated =>
                    \E c \in CommandCalls :
                       c.op = op /\ writes' = Append(writes, WriteOf(op, c.arg))
               /\ ~Authenticated => writes' = writes /\ call'.result = "ValueError"
               /\ call'.request = "error" =>
                    call'.result = "raised" /\ refreshRequested' = refreshRequested
               /\ call'.request = "ok" => call'.result = "returned" ]_vars
    /\ [][ writes' # writes => \E op \in CommandOps : CallStep(op) ]_vars

\* C21 witness: an open succeeded, then a set-tilt failed and raised; the
\* log holds the two writes, one per call.
C21_Witness ==
    /\ call.op = "async_set_roof_tilt"
    /\ call.request = "error"
    /\ call.result = "raised"
    /\ call.seq = 2
    /\ writes = <<RoofMove("stack", 100), RoofMove("tilt", 900)>>

-----------------------------------------------------------------------------
(* C22, as the specification states it: a status fetch is never started
   while the client still holds the token to which the last status fetch was
   answered 401 (the caller re-authenticates first); and whenever a status
   fetch has been answered 401, a later status fetch succeeds. *)
C22_ReauthenticateOn401 ==
    /\ [][ (pollPc = "idle" /\ pollPc' = "status") => ~rejected ]_vars
    /\ (rejected ~> pollPc = "weather")

-----------------------------------------------------------------------------
(* C23: an authentication failure during setup is terminal and surfaced.
   When async_login raises in async_setup_entry (error status, no token in
   the answer, transport error), async_setup_entry has raised; the client
   has no token, no coordinator is registered, no platform is set up, no
   refresh was made or is pending, no listener task was created and no
   socket opened; and nothing of that changes afterwards. *)
C23_LoginFailureTerminal ==
    /\ [][ (setupPc = "login" /\ call'.op = "async_login" /\ call'.result = "raised")
             => setupPc' = "loginFailed" ]_vars
    /\ [][ (setupPc' = "loginFailed")
             => /\ ~Registered' /\ ~PlatformsSetUp'
                /\ token' = "none"
                /\ wsPc' = "none" /\ ws' = "none" /\ ~taskRef' /\ pingPc' = "none"
                /\ data' = NoneVal /\ pollPc' = "idle" /\ ~refreshRequested'
                /\ last'.op = "init" ]_vars

\* C23 witness: the device answered the authenticate request with an error
\* status; the setup has raised with the session created and nothing else.
C23_Witness ==
    /\ setupPc = "loginFailed"
    /\ call.op = "async_login"
    /\ call.request = "http_error"
    /\ call.result = "raised"
    /\ session

-----------------------------------------------------------------------------
(* C24: a call of async_logout always returns (it never raises).  On a
   client with a token and a session the token is None afterwards, whether
   the logout request was accepted, answered with an error status, or
   raised; on a client without a token or without a session no request is
   made and nothing changes.  The session is left as it was. *)
C24_LogoutClearsToken ==
    [][ CallStep("async_logout") =>
          /\ call'.result = "returned"
          /\ Authenticated =>
               /\ token' = "none"
               /\ call'.request \in LogoutOutcomes
          /\ ~Authenticated =>
               /\ call'.request = "none"
               /\ UNCHANGED <<authVars, writes>>
          /\ session' = session
          /\ UNCHANGED <<coordVars, wsVars, taskRef>> ]_vars

\* C24 witness: the logout request raised on an authenticated client, the
\* call returned and the token is gone.
C24_Witness ==
    /\ call.op = "async_logout"
    /\ call.request = "raised"
    /\ call.result = "returned"
    /\ token = "none"
    /\ session

-----------------------------------------------------------------------------
(* C25, as the specification states it: when async_close returns, from
   whatever state it was called in, the token is None, the session is None,
   no listener task is running and ws_connected is false; the logout runs
   once async_disconnect_websocket has returned and the session is closed
   after the logout. *)
C25_CloseLeavesNothing ==
    /\ [][ (closePc # "returned" /\ closePc' = "returned")
             => /\ token' = "none"
                /\ ~session'
                /\ ~ListenerRunning'
                /\ ~WsConnected' ]_vars
    /\ [][ (closePc = "disconnect" /\ closePc' # "disconnect")
             => discPc = "idle" /\ token' = "none" ]_vars
    /\ [][ (closePc = "session" /\ closePc' # "session")
             => token = "none" /\ closePc' = "returned" ]_vars

-----------------------------------------------------------------------------
(* C26: _degrees_to_ha(d) is clamp(round(d / 125 * 100), 0, 100) for every
   input: an integer of 0..100, 0 for 0 degrees and 100 for 125 degrees, and
   no smaller for a larger angle of [0, 125]. *)
C26_DegreesToPercent ==
    calc.fn = "_degrees_to_ha" =>
        LET d == calc.arg
            rounded == PyRoundDiv(d * 100, 1250)
        IN  /\ calc.res = (IF rounded < 0 THEN 0 ELSE IF rounded > 100 THEN 100
                           ELSE rounded)
            /\ calc.res \in 0 .. 100
            /\ d = 0 => calc.res = 0
            /\ d = 1250 => calc.res = 100
            /\ d \in 0 .. 1250 =>
                 \A e \in d .. 1250 : calc.res <= DegreesToHa(e)

\* C26 witness: 125.7 degrees give 100, being clamped from 101.
C26_Witness ==
    /\ calc.fn = "_degrees_to_ha"
    /\ calc.arg = 1257
    /\ PyRoundDiv(calc.arg * 100, 1250) = 101
    /\ calc.res = 100

-----------------------------------------------------------------------------
(* C27: _ha_to_degrees(p) clamps and never rejects.  For every integer p,
   below 0 and above 100 included, the result is
   round(clamp(p, 0, 100) / 100 * 125, 1), lies in [0, 125], is 0 for 0 and
   125 for 100, and is no smaller for a larger p; and every tilt command of
   set-tilt-position carries that result, so none exceeds 125 degrees. *)
C27_PercentToDegrees ==
    /\ calc.fn = "_ha_to_degrees" =>
          LET p == calc.arg
              clamped == IF p < 0 THEN 0 ELSE IF p > 100 THEN 100 ELSE p
          IN  /\ calc.res = PyRoundDiv(clamped * 1250, 100)
              /\ calc.res \in 0 .. 1250
              /\ p = 0 => calc.res = 0
              /\ p = 100 => calc.res = 1250
              /\ \A q \in PercentInputs : p <= q => calc.res <= HaToDegrees(q)
              /\ writes # <<>>
              /\ writes[Len(writes)] = RoofMove("tilt", calc.res)
    /\ \A i \in 1 .. Len(writes) :
          /\ writes[i].body.json.action = "tilt"
          /\ writes[i].body.json.value \in 0 .. 1250

\* C27 witness: set-tilt-position was called with 110 and sent 125 degrees.
C27_Witness ==
    /\ calc.fn = "_ha_to_degrees"
    /\ calc.arg = 110
    /\ calc.res = 1250
    /\ writes = <<RoofMove("tilt", 1250)>>
    /\ call.result = "returned"

-----------------------------------------------------------------------------
(* C28: on opening the event stream the listener sends Authenticate first,
   then Subscribe with the five topics, and only then starts the keepalive
   and the read loop: no Ping is sent and no event reaches the callback
   unless both messages have been sent on the connection, in that order. *)
C28_HandshakeBeforeEvents ==
    /\ [](/\ Len(handshake) <= 2
          /\ (Len(handshake) >= 1 => handshake[1] = Authenticate(token))
          /\ (Len(handshake) = 2 => HandshakeDone)
          /\ (pingPc = "sleeping" => HandshakeDone)
          /\ (wsPc = "reading" => HandshakeDone))
    /\ [][ pings' # pings => HandshakeDone ]_vars
    /\ [][ (\E delta \in TimingDeltas : PushStep(delta)) => HandshakeDone ]_vars
    /\ [][ (last' # last /\ last'.op = "push") => HandshakeDone ]_vars

\* C28 witness: after the two messages a Ping was sent and an event was
\* delivered; the listener is reading.
C28_Witness ==
    /\ HandshakeDone
    /\ pings > 0
    /\ last.op = "push"
    /\ wsPc = "reading"
    /\ ws = "open"

-----------------------------------------------------------------------------
(* C29: a refresh that finds the stream not connected asks for it to be
   opened and goes on to the REST fetch in the same step, without waiting:
   after the step a listener task is running (a new one is still
   connecting) and the status request is out.  A failure to connect or to
   handshake changes nothing of the coordinator: not the data, not what the
   listeners saw, not the result of the refresh in flight. *)
C29_StreamOpenNeverBlocks ==
    /\ [][ RefreshStartStep =>
             /\ ~WsConnected => WsTaskRunning'
             /\ (~WsConnected /\ ~WsTaskRunning) => wsPc' = "connecting"
             /\ WsConnected => UNCHANGED <<wsVars, taskRef>>
             /\ ws' = ws ]_vars
    /\ [][ OpenFailStep => UNCHANGED <<coordVars, clockVars, refreshRequested>> ]_vars

\* C29 witness: the listener failed in its handshake and is over, and the
\* refresh that started it has stored the status it fetched.
C29_Witness ==
    /\ wsPc = "done"
    /\ Len(handshake) = 1
    /\ pings = 0
    /\ last.op = "refresh_ok"
    /\ updateFailed = 0
    /\ data # NoneVal
    /\ pollPc = "idle"

-----------------------------------------------------------------------------
(* C30: merges take effect in the order they complete, each in one step.
   A push merged while a poll is in flight goes into the data at once and
   leaves the poll's response alone; when the poll completes afterwards, the
   data takes the poll's value for every field the response carries, and a
   roof_device the response does not carry is the one the data holds at that
   moment, which is the one pushed last. *)
C30_CompletionOrder ==
    /\ [][ \A weather \in WeatherOutcomes :
             FinishRefresh(weather) =>
               LET fetched == IF weather \in WeatherValues
                              THEN DictSet(rdata, "weather_state", weather)
                              ELSE rdata
               IN  /\ \A k \in DOMAIN fetched : data'[k] = fetched[k]
                   /\ (Has(data, "roof_device") /\ "roof_device" \notin DOMAIN fetched)
                        => data'["roof_device"] = data["roof_device"]
                   /\ (last.op = "push" /\ "roof_device" \in DOMAIN last.arg
                         /\ "roof_device" \notin DOMAIN fetched)
                        => data'["roof_device"] = last.arg["roof_device"] ]_vars
    /\ [][ \A delta \in Deltas :
             (PushStep(delta) /\ pollPc # "idle") =>
               /\ data' = PushMerged(data, delta)
               /\ seen' = data'
               /\ UNCHANGED <<pollPc, rdata, updateFailed>> ]_vars

\* C30 witness: the first refresh of the setup has completed without
\* roof_device in its response; the listener was started by that refresh, so
\* the roof_device of the data was pushed while the poll was in flight, and
\* it is kept beside the state the poll fetched.
C30_Witness ==
    /\ setupPc = "forward"
    /\ last.op = "refresh_ok"
    /\ "roof_device" \notin DOMAIN last.arg
    /\ Has(data, "roof_device")
    /\ data["roof_device"] = RoofOpening
    /\ data["state"] = last.arg["state"]
    /\ Has(data, "current_roof_positions")

-----------------------------------------------------------------------------
(* C31, as the specification states it: at any time at most one listener
   task of the client is running, whatever the order of refreshes, stream
   ends and disconnect calls; a refresh creates a listener task only when no
   earlier listener is still connecting, reading or in its finally block. *)
C31_SingleListener ==
    /\ [](ListenerCount <= 1)
    /\ [][ ListenerStartStep => ~ListenerRunning ]_vars

-----------------------------------------------------------------------------
(* C32, as the specification states it: a cycle press while the roof is not
   moving and the rounded stack is 0 issues the open command, whatever the
   direction memory is; a press while the roof is not moving and the rounded
   stack is at least 100 issues the full close. *)
C32_BoundaryOverridesMemory ==
    [][ /\ (PressStep /\ ~RoofMoving(data) /\ PyRound(StackOf(data)) = 0) =>
              issued' = <<"open">>
        /\ (PressStep /\ ~RoofMoving(data) /\ PyRound(StackOf(data)) >= 100) =>
              issued' = <<"close">> ]_vars

-----------------------------------------------------------------------------
(* C33, as the specification states it: the direction memory changes only
   in a step in which the listeners are told of coordinator data whose
   roof_device.state is "moving"; no other operation changes it. *)
C33_OnlyUpdatesMutate ==
    [][ lastDirection' # lastDirection =>
          (MemoryUpdateStep /\ RoofMoving(data')) ]_vars

\* C33 as amended: the direction memory changes only in a step in which the
\* listeners are told of coordinator data whose roof_device.state is
\* "moving", or at the end of a cycle press whose open or full-close command
\* has succeeded; a press that stopped the roof, a failed command, a failed
\* refresh and the commands of the other entities leave it as it is.
C33_UpdatesAndPressesMutate ==
    [][ lastDirection' # lastDirection =>
          \/ MemoryUpdateStep /\ RoofMoving(data')
          \/ CommandDone /\ issued[Len(issued)] \in {"open", "close"} ]_vars

\* C33 witness: no data has ever arrived, and two presses have taken the
\* memory to "opening" and back: the second one issued the full close, which
\* at stack 0 takes the memory "opening", and is over.
C33_Witness ==
    /\ data = NoneVal
    /\ last.op = "init"
    /\ pressPc = "idle"
    /\ issued = <<"close">>
    /\ lastDirection = "closing"

-----------------------------------------------------------------------------
(* C34: an operation that needs authentication, called while the client has
   no token or no session (after the logout of a close, after the close),
   fails and sends nothing.  A command or a fetch raises ValueError with no
   request made and no write sent; the status fetch of a refresh fails the
   refresh and leaves the data; its weather fetch raises; a listener that
   starts ends at once, or is cancelled, with no connection opened and no
   handshake message sent. *)
C34_UnauthenticatedFails ==
    /\ [][ \A op \in CommandOps \cup FetchOps :
             (CallStep(op) /\ ~Authenticated) =>
                /\ call'.result = "ValueError"
                /\ call'.request = "none"
                /\ writes' = writes
                /\ refreshRequested' = refreshRequested ]_vars
    /\ [][ (pollPc = "status" /\ pollPc' # "status" /\ ~Authenticated) =>
             /\ RefreshFailedStep
             /\ updateFailed' = updateFailed + 1
             /\ data' = data ]_vars
    /\ [][ (RefreshDoneStep /\ ~Authenticated) => last'.weather = "raise" ]_vars
    /\ [][ (wsPc = "connecting" /\ wsPc' # "connecting" /\ ~Authenticated) =>
             /\ wsPc' \in {"done", "cleanup"}
             /\ ws' = ws
             /\ ~WsConnected'
             /\ handshake' = handshake ]_vars

\* C34 witness: the client was closed before the first refresh ran; that
\* refresh has failed, the listener it started is done without a socket, and
\* a command called after it has raised ValueError with nothing written.
C34_Witness ==
    /\ closePc = "returned"
    /\ token = "none"
    /\ ~session
    /\ last.op = "refresh_failed"
    /\ wsPc = "done"
    /\ ws = "none"
    /\ call.op = "async_open_roof"
    /\ call.result = "ValueError"
    /\ writes = <<>>

-----------------------------------------------------------------------------
(* C35: a cycle press whose command fails ends with the exception, and the
   step in which it ends leaves the direction memory and the refresh request
   as they were; the step in which a press picks and sends its command
   leaves them too.  A press changes the memory only in the step in which
   its command has succeeded, the step that also requests the refresh. *)
C35_FailedPressKeepsMemory ==
    [][ /\ (pressPc = "cmd" /\ pressPc' = "raised") =>
              /\ lastDirection' = lastDirection
              /\ refreshRequested' = refreshRequested
              /\ UNCHANGED <<data, issued>>
        /\ PressStep =>
              /\ lastDirection' = lastDirection
              /\ refreshRequested' = refreshRequested
        /\ (lastDirection' # lastDirection /\ ~MemoryUpdateStep) =>
              /\ pressPc = "cmd"
              /\ pressPc' = "idle"
              /\ refreshRequested'
              /\ lastDirection' = (IF issued = <<"open">> THEN "opening" ELSE "closing") ]_vars

\* C35 witness: the first press issued open and its command failed: the
\* press ended with the exception, the memory is still "closing", and no
\* refresh is requested (the first refresh has run).
C35_Witness ==
    /\ pressPc = "raised"
    /\ issued = <<"open">>
    /\ lastDirection = "closing"
    /\ ~refreshRequested
    /\ last.op = "refresh_ok"
    /\ ~Has(data, "roof_device")

-----------------------------------------------------------------------------
(* C36: without a push event roof_device stays what the last push made it.
   Every step that is not the merge of a push, a failed refresh included,
   leaves roof_device as it is, but for the end of a poll whose status
   response carries roof_device itself.  So after a successful poll whose
   response lacks it, a roof_device with state "moving" is still there: the
   cover reports opening and closing as before the poll, and a cycle press
   would issue stop whatever the memory is. *)
C36_PollsKeepRoofDevice ==
    /\ [][ (~(\E delta \in Deltas : PushStep(delta))
              /\ ~(RefreshDoneStep /\ Has(rdata, "roof_device")))
             => GetRoofDevice(data') = GetRoofDevice(data) ]_vars
    /\ [][ (RefreshDoneStep /\ ~Has(rdata, "roof_device") /\ RoofMoving(data)) =>
             /\ RoofMoving(data')
             /\ IsOpening(data') = IsOpening(data)
             /\ IsClosing(data') = IsClosing(data)
             /\ \A mem \in {"opening", "closing"} : CycleCommand(data', mem) = "stop" ]_vars
    /\ [][ (PressStep /\ RoofMoving(data)) => issued' = <<"stop">> ]_vars

\* C36 witness: the stream is lost, the roof_device pushed last says the
\* roof is stacking, a poll whose response has no roof_device has
\* succeeded since, the cover still reports opening, and the press in
\* flight has issued stop.
C36_Witness ==
    /\ wsPc = "done"
    /\ ~WsConnected
    /\ last.op = "refresh_ok"
    /\ ~Has(last.arg, "roof_device")
    /\ GetRoofDevice(data) = RoofOpening
    /\ IsOpening(data) = "True"
    /\ pressPc = "cmd"
    /\ issued = <<"stop">>

-----------------------------------------------------------------------------
(* C37: while coordinator.data has no roof_device (none was ever pushed, for
   roof_device once there stays), no press issues stop, and the successful
   presses at a rounded stack below 100 alternate.  The memory starts as
   "closing"; a press issues open when the memory is "closing" and the full
   close when it is "opening"; the command done, the memory is "opening"
   after open and "closing" after the full close, which is the other value
   than before; and nothing else changes the memory.  So the commands of
   successive successful presses are open, full close, open. *)
C37_RestOnlyAlternates ==
    /\ lastDirection = "closing"
    /\ [](~Has(data, "roof_device") => issued # <<"stop">>)
    /\ [][ (PressStep /\ ~Has(data, "roof_device") /\ PyRound(StackOf(data)) < 100) =>
             issued' = <<IF lastDirection = "closing" THEN "open" ELSE "close">> ]_vars
    /\ [][ (CommandDone /\ ~Has(data, "roof_device")) =>
             /\ lastDirection' = (IF issued = <<"open">> THEN "opening" ELSE "closing")
             /\ (issued = <<"open">> \/ lastDirection = "opening")
                   => lastDirection' # lastDirection ]_vars
    /\ [][ (~Has(data', "roof_device") /\ lastDirection' # lastDirection) =>
             CommandDone ]_vars

\* C37 witness: the data is that of a successful poll, without roof_device
\* and with the stack at 0; the memory is "opening", which without any
\* roof_device only a successful press that issued open can have made it,
\* and the press in flight has issued the full close.
C37_Witness ==
    /\ last.op = "refresh_ok"
    /\ ~Has(data, "roof_device")
    /\ PosKnown(data, "stack")
    /\ StackOf(data) = 0
    /\ lastDirection = "opening"
    /\ pressPc = "cmd"
    /\ issued = <<"close">>

-----------------------------------------------------------------------------
(* C38: for every integer position p of 0..100, _degrees_to_ha of
   _ha_to_degrees(p) is p.  When the cover converts the angle that the last
   set-tilt-position command carried, the command having been made for a
   position of 0..100, the position it reads is the position that was set. *)
C38_TiltRoundTrip ==
    /\ \A p \in 0 .. 100 : DegreesToHa(HaToDegrees(p)) = p
    /\ [][ (/\ calc.fn = "_ha_to_degrees"
            /\ calc.arg \in 0 .. 100
            /\ calc'.fn = "_degrees_to_ha") =>
              /\ calc'.arg = calc.res
              /\ writes[Len(writes)] = RoofMove("tilt", calc'.arg)
              /\ calc'.res = calc.arg ]_vars

\* C38 witness: position 25 was set, which is 31.25 degrees and goes out as
\* 31.2; the device is at 31.2 degrees and the cover reads position 25.
C38_Witness ==
    /\ writes = <<RoofMove("tilt", 312)>>
    /\ call.op = "async_set_roof_tilt"
    /\ calc = [fn |-> "_degrees_to_ha", arg |-> 312, res |-> 25]

-----------------------------------------------------------------------------
(* C39: in every reachable state of the client a held token implies an open
   session (token is not None implies session is not None), through every
   sequence of logins that succeed or fail, logouts and closes; and a call
   of async_login that raises leaves the token as it was. *)
C39_TokenImpliesSession ==
    /\ [](token # "none" => session)
    /\ [][ (CallStep("async_login") /\ call'.result = "raised")
             => token' = token ]_vars

\* C39 witness: the client was closed, a login then returned a token, and
\* the login after it was answered with an error status: the token is still
\* held and the session is open.
C39_Witness ==
    /\ closePc = "returned"
    /\ call = [op |-> "async_login", request |-> "http_error",
               result |-> "raised", seq |-> 2]
    /\ token = "ok"
    /\ session

=============================================================================
